---------------------------- MODULE Spec2Model ----------------------------
(***************************************************************************)
(* Version resolution, engine-core start-up and the ProcessEvent           *)
(* dispatcher of UniversalSlashingSimulator, as state machines.            *)
(*                                                                         *)
(* Conventions                                                             *)
(*   - EResult and EEngineGeneration values are strings with the           *)
(*     enumerators' names.                                                 *)
(*   - FortniteVersion (a double with two decimals in every place the      *)
(*     source writes one) is kept in hundredths: 8.30 is 830.              *)
(*   - Process memory scanned by the resolver is the environment: each     *)
(*     scan's outcome is an input of the call that performs it.            *)
(***************************************************************************)
EXTENDS Integers, Sequences, FiniteSets, TLC

VARIABLES
    m_VersionInfo,      \* FVersionResolver::m_VersionInfo
    m_bDetected,        \* FVersionResolver::m_bDetected
    lastDetect,         \* observation: the latest DetectVersion() call
    lastQuery           \* observation: the latest SupportsVersion() call

VARIABLES
    s_bInitialized,     \* Memory::s_bInitialized
    m_bResolved,        \* FStubOffsetResolver::m_bResolved
    m_Status,           \* FEngineCore::m_Status
    m_pObjectArray,     \* FEngineCore::m_pObjectArray
    m_pNamePool,        \* FEngineCore::m_pNamePool
    g_bHookInitialized, \* Hook::Detail::g_bInitialized
    g_PropertyIterator, \* the global behind GetPropertyIterator()
    lastCore            \* observation: the latest FEngineCore::Initialize() call

coreVars == <<s_bInitialized, m_bResolved, m_Status, m_pObjectArray, m_pNamePool,
              g_bHookInitialized, g_PropertyIterator, lastCore>>

VARIABLES
    m_bInitialized,         \* FProcessEventDispatcher::m_bInitialized
    m_NextHandlerId,
    m_Handlers,
    m_bHandlersDirty,
    m_FunctionCache,        \* the callables whose parameter list is cached
    m_TotalEventsProcessed,
    m_TotalEventsHandled,
    m_TotalEventsBlocked,
    lastEvent,              \* observation: the OnProcessEvent() call that just returned
    loop                    \* the dispatch loop of an OnProcessEvent() call in progress

dispatchVars == <<m_bInitialized, m_NextHandlerId, m_Handlers, m_bHandlersDirty,
                  m_FunctionCache, m_TotalEventsProcessed, m_TotalEventsHandled,
                  m_TotalEventsBlocked, lastEvent, loop>>

VARIABLES
    probe                   \* observation: the latest call to one of the table lookups

vars == <<m_VersionInfo, m_bDetected, lastDetect, lastQuery,
          s_bInitialized, m_bResolved, m_Status, m_pObjectArray, m_pNamePool,
          g_bHookInitialized, g_PropertyIterator, lastCore,
          m_bInitialized, m_NextHandlerId, m_Handlers, m_bHandlersDirty,
          m_FunctionCache, m_TotalEventsProcessed, m_TotalEventsHandled,
          m_TotalEventsBlocked, lastEvent, loop, probe>>

resolverVars == <<m_VersionInfo, m_bDetected, lastDetect, lastQuery>>

-----------------------------------------------------------------------------
(* FVersionInfo                                                            *)

\* FVersionInfo::FVersionInfo(): the default-constructed record.
DefaultVersionInfo ==
    [ EngineVersionMajor |-> 0, EngineVersionMinor |-> 0, EngineVersionPatch |-> 0,
      FortniteVersion |-> 0, FortniteSeasonMajor |-> 0, FortniteSeasonMinor |-> 0,
      FortniteCL |-> 0, Generation |-> "Unknown",
      bUseFNamePool |-> FALSE, bUseFField |-> FALSE, bUseChunkedObjects |-> FALSE,
      bUseNewFastArraySerializer |-> FALSE, bUseTObjectPtr |-> FALSE,
      bSupportsSTW |-> TRUE ]

-----------------------------------------------------------------------------
(* The CL table: <<CLMin, CLMax, EngineMajor, EngineMinor, FortniteVersion>> *)

s_CLMappings ==
  <<
    <<3541083, 3681159, 4, 16, 120>>,
    <<3681159, 3700114, 4, 16, 150>>,
    <<3700114, 3709086, 4, 16, 172>>,
    <<3709086, 3724489, 4, 16, 180>>,
    <<3724489, 3757339, 4, 16, 182>>,
    <<3757339, 3775276, 4, 16, 190>>,
    <<3775276, 3790078, 4, 16, 191>>,
    <<3790078, 3807424, 4, 19, 110>>,
    <<3807424, 3821117, 4, 19, 111>>,
    <<3821117, 3841827, 4, 19, 200>>,
    <<3841827, 3847564, 4, 19, 210>>,
    <<3847564, 3858292, 4, 19, 220>>,
    <<3858292, 3870737, 4, 19, 230>>,
    <<3870737, 3889387, 4, 19, 240>>,
    <<3889387, 3901517, 4, 19, 241>>,
    <<3901517, 3913157, 4, 19, 242>>,
    <<3913157, 3922182, 4, 19, 250>>,
    <<3922182, 3935073, 4, 20, 300>>,
    <<3935073, 3942182, 4, 20, 310>>,
    <<3942182, 3948073, 4, 20, 320>>,
    <<3948073, 3968866, 4, 20, 330>>,
    <<3968866, 3989614, 4, 20, 340>>,
    <<3989614, 4008490, 4, 20, 350>>,
    <<4008490, 4019403, 4, 20, 351>>,
    <<4019403, 4039451, 4, 20, 352>>,
    <<4039451, 4072250, 4, 20, 360>>,
    <<4072250, 4117433, 4, 20, 400>>,
    <<4117433, 4127312, 4, 20, 410>>,
    <<4127312, 4166199, 4, 20, 420>>,
    <<4166199, 4205896, 4, 20, 430>>,
    <<4205896, 4240749, 4, 20, 440>>,
    <<4240749, 4276938, 4, 20, 450>>,
    <<4276938, 4336496, 4, 21, 500>>,
    <<4336496, 4352937, 4, 21, 501>>,
    <<4352937, 4378021, 4, 21, 510>>,
    <<4378021, 4395664, 4, 21, 520>>,
    <<4395664, 4417689, 4, 21, 521>>,
    <<4417689, 4442095, 4, 21, 530>>,
    <<4442095, 4461277, 4, 21, 540>>,
    <<4461277, 4476098, 4, 21, 541>>,
    <<4476098, 4526925, 4, 21, 600>>,
    <<4526925, 4541578, 4, 21, 601>>,
    <<4541578, 4573279, 4, 21, 610>>,
    <<4573279, 4612618, 4, 21, 620>>,
    <<4612618, 4629139, 4, 21, 621>>,
    <<4629139, 4667333, 4, 21, 630>>,
    <<4667333, 4683176, 4, 21, 631>>,
    <<4683176, 4741202, 4, 22, 700>>,
    <<4741202, 4775217, 4, 22, 710>>,
    <<4775217, 4801627, 4, 22, 720>>,
    <<4801627, 4834550, 4, 22, 730>>,
    <<4834550, 4869070, 4, 22, 740>>,
    <<4869070, 4900175, 4, 22, 800>>,
    <<4900175, 4937820, 4, 22, 810>>,
    <<4937820, 4975227, 4, 22, 820>>,
    <<4975227, 5027463, 4, 22, 830>>,
    <<5027463, 5046157, 4, 22, 840>>,
    <<5046157, 5076327, 4, 22, 850>>,
    <<5076327, 5110300, 4, 22, 851>>,
    <<5110300, 5176700, 4, 23, 900>>,
    <<5176700, 5216303, 4, 23, 910>>,
    <<5216303, 5268528, 4, 23, 920>>,
    <<5268528, 5332994, 4, 23, 930>>,
    <<5332994, 5372160, 4, 23, 940>>,
    <<5372160, 5423082, 4, 23, 941>>,
    <<5423082, 5492370, 4, 23, 1000>>,
    <<5492370, 5545976, 4, 23, 1010>>,
    <<5545976, 5633945, 4, 23, 1020>>,
    <<5633945, 5704620, 4, 23, 1030>>,
    <<5704620, 5826396, 4, 23, 1031>>,
    <<5826396, 5878874, 4, 23, 1040>>,
    <<5878874, 6058028, 4, 24, 1100>>,
    <<6058028, 6113816, 4, 24, 1101>>,
    <<6113816, 6195466, 4, 24, 1110>>,
    <<6195466, 6316943, 4, 24, 1120>>,
    <<6316943, 6394056, 4, 24, 1121>>,
    <<6394056, 6522018, 4, 24, 1130>>,
    <<6522018, 6639283, 4, 24, 1131>>,
    <<6639283, 6755567, 4, 24, 1140>>,
    <<6755567, 6870595, 4, 24, 1150>>,
    <<6870595, 7037963, 4, 24, 1200>>,
    <<7037963, 7095426, 4, 24, 1210>>,
    <<7095426, 7190182, 4, 24, 1220>>,
    <<7190182, 7251970, 4, 24, 1221>>,
    <<7251970, 7351410, 4, 24, 1230>>,
    <<7351410, 7421103, 4, 24, 1240>>,
    <<7421103, 7499902, 4, 24, 1241>>,
    <<7499902, 7609292, 4, 24, 1250>>,
    <<7609292, 7704104, 4, 24, 1260>>,
    <<7704104, 7834553, 4, 24, 1261>>,
    <<7834553, 8008725, 4, 24, 1300>>,
    <<8008725, 8090709, 4, 24, 1320>>,
    <<8090709, 8154316, 4, 24, 1330>>,
    <<8154316, 8297117, 4, 24, 1340>>,
    <<8297117, 8490514, 4, 24, 1400>>,
    <<8490514, 8606188, 4, 24, 1410>>,
    <<8606188, 8723043, 4, 24, 1420>>,
    <<8723043, 8775446, 4, 24, 1430>>,
    <<8775446, 8870917, 4, 24, 1440>>,
    <<8870917, 9034168, 4, 24, 1450>>,
    <<9034168, 9141206, 4, 24, 1460>>,
    <<9141206, 9449003, 4, 25, 1500>>,
    <<9449003, 9562734, 4, 25, 1510>>,
    <<9562734, 9685607, 4, 25, 1520>>,
    <<9685607, 9822221, 4, 25, 1521>>,
    <<9822221, 9926083, 4, 25, 1530>>,
    <<9926083, 10033985, 4, 25, 1540>>,
    <<10033985, 10127509, 4, 25, 1550>>,
    <<10127509, 10466661, 4, 26, 1600>>,
    <<10466661, 10639200, 4, 26, 1610>>,
    <<10639200, 10800459, 4, 26, 1620>>,
    <<10800459, 10951243, 4, 26, 1630>>,
    <<10951243, 11100825, 4, 26, 1640>>,
    <<11100825, 11203632, 4, 26, 1650>>,
    <<11203632, 11556442, 4, 26, 1700>>,
    <<11556442, 11724923, 4, 26, 1710>>,
    <<11724923, 11883027, 4, 26, 1720>>,
    <<11883027, 12058785, 4, 26, 1721>>,
    <<12058785, 12186007, 4, 26, 1730>>,
    <<12186007, 12343911, 4, 26, 1740>>,
    <<12343911, 12493209, 4, 26, 1750>>,
    <<12493209, 12905909, 4, 26, 1800>>,
    <<12905909, 13039508, 4, 26, 1810>>,
    <<13039508, 13206842, 4, 26, 1820>>,
    <<13206842, 13383027, 4, 26, 1821>>,
    <<13383027, 13498980, 4, 26, 1830>>,
    <<13498980, 13692932, 4, 26, 1840>>,
    <<13692932, 14211857, 5, 0, 1900>>,
    <<14211857, 14422223, 5, 0, 1901>>,
    <<14422223, 14550713, 5, 0, 1910>>,
    <<14550713, 14786821, 5, 0, 1920>>,
    <<14786821, 14899505, 5, 0, 1930>>,
    <<14899505, 19215531, 5, 0, 1940>>
  >>
s_CLMappingCount == Len(s_CLMappings)

\* Product versions v of the table for which the double expression
\* (v - uint32(v)) * 100 lies just below its decimal value, so that the
\* conversion to uint32 in MapCLToVersion drops one.
SeasonMinorRoundsDown ==
    {120, 190, 191, 230, 240, 242, 330, 340, 351, 410, 430, 501, 510, 521, 530, 601, 610, 621, 630, 631, 710, 730, 810, 820, 851, 910, 920, 1010, 1020, 1101, 1110, 1120, 1210, 1220, 1260, 1261, 1320, 1410, 1420, 1460, 1510, 1520, 1620, 1640, 1720, 1740, 1820, 1840, 1920, 1940}

\* static_cast<uint32>((FortniteVersion - FortniteSeasonMajor) * 100)
SeasonMinorOf(fn) ==
    IF fn \in SeasonMinorRoundsDown THEN (fn % 100) - 1 ELSE fn % 100

\* The range test of MapCLToVersion's loop, shifted by one at both ends.
RowHoldsShifted(row, CL) == CL > row[1] /\ CL <= row[2]

\* The range test with CLMax inside the range.
RowHoldsMutClosed(row, CL) == CL >= row[1] /\ CL <= row[2]

\* The range test of MapCLToVersion's loop: CLMin <= CL < CLMax.
RowHolds(row, CL) == CL >= row[1] /\ CL < row[2]

\* The index of the first table row whose range holds CL, 0 if none: the loop
\* of MapCLToVersion.
FirstMatch(CL) ==
    IF \E i \in 1..s_CLMappingCount : RowHolds(s_CLMappings[i], CL)
    THEN CHOOSE i \in 1..s_CLMappingCount :
            /\ RowHolds(s_CLMappings[i], CL)
            /\ \A j \in 1..(i - 1) : ~RowHolds(s_CLMappings[j], CL)
    ELSE 0

\* The assignments MapCLToVersion makes for the matching row.
MapRow(info, CL, row) ==
    [info EXCEPT
       !.FortniteCL = CL,
       !.EngineVersionMajor = row[3],
       !.EngineVersionMinor = row[4],
       !.FortniteVersion = row[5],
       !.FortniteSeasonMajor = row[5] \div 100,
       !.FortniteSeasonMinor = SeasonMinorOf(row[5])]

MapIndex(info, CL, i) ==
    IF i = 0
    THEN [ok |-> FALSE, info |-> info]
    ELSE [ok |-> TRUE, info |-> MapRow(info, CL, s_CLMappings[i])]

\* FVersionResolver::MapCLToVersion: [ok, info]; info is written on a match only.
MapCLToVersion(info, CL) == MapIndex(info, CL, FirstMatch(CL))

-----------------------------------------------------------------------------
(* The three detection strategies                                          *)

\* FVersionResolver::TryDetectFromVersionInfo.  vs is what the scan for the
\* "++Fortnite+Release" string yields: found, whether "CL-%u" parsed, the value.
TryDetectFromVersionInfo(info, vs) ==
    IF ~vs.found THEN [ok |-> FALSE, info |-> info]
    ELSE IF vs.hasCL /\ vs.cl > 0 THEN MapCLToVersion(info, vs.cl)
    ELSE [ok |-> FALSE, info |-> info]

\* FVersionResolver::TryDetectFromCL.  ev is what the GetEngineVersion accessor
\* yields: found, whether "-<digits>+++" is present, the uint32 strtoul gives.
TryDetectFromCL(info, ev) ==
    IF ~ev.found THEN [ok |-> FALSE, info |-> info]
    ELSE IF ~ev.parsed THEN [ok |-> FALSE, info |-> info]
    ELSE MapCLToVersion(info, ev.cl)

\* The four fields a pattern branch assigns.
PatternGuess(info, major, minor, fn, cl) ==
    [info EXCEPT !.EngineVersionMajor = major, !.EngineVersionMinor = minor,
                 !.FortniteVersion = fn, !.FortniteCL = cl]

\* FVersionResolver::TryDetectFromPatterns.  pat is the set of signatures
\* present in the module; every path returns true.
TryDetectFromPatterns(info, pat) ==
    IF "FField" \in pat /\ "FNamePool" \in pat
    THEN [ok |-> TRUE, info |-> PatternGuess(info, 4, 25, 1500, 9500000)]
    ELSE IF "FNamePool" \in pat
    THEN [ok |-> TRUE, info |-> PatternGuess(info, 4, 23, 900, 5200000)]
    ELSE IF "OldGNames" \in pat
    THEN IF "Chunked" \in pat
         THEN [ok |-> TRUE, info |-> PatternGuess(info, 4, 21, 500, 4300000)]
         ELSE [ok |-> TRUE, info |-> PatternGuess(info, 4, 16, 180, 3724489)]
    ELSE [ok |-> TRUE, info |-> PatternGuess(info, 4, 16, 180, 3724489)]

\* Pattern scans TryDetectFromPatterns issues: three, and the chunked-objects
\* scan only inside the old-GNames branch.
PatternScans(pat) ==
    IF ("FField" \in pat /\ "FNamePool" \in pat) \/ "FNamePool" \in pat THEN 3
    ELSE IF "OldGNames" \in pat THEN 4 ELSE 3

-----------------------------------------------------------------------------
(* Generation, feature flags, supported envelope                           *)

\* DetermineGeneration with 4.24 counted to the generation of 4.25.
DetermineGenerationMutUpTo23(info) ==
    LET Major == info.EngineVersionMajor
        Minor == info.EngineVersionMinor
    IN [info EXCEPT !.Generation =
          IF Major = 4
          THEN IF Minor <= 19 THEN "UE4_16_19"
               ELSE IF Minor <= 22 THEN "UE4_20_22"
               ELSE IF Minor <= 23 THEN "UE4_23_24"
               ELSE IF Minor <= 25 THEN "UE4_25"
               ELSE "UE4_26_27"
          ELSE IF Major = 5
          THEN IF Minor = 0 THEN "UE5_0" ELSE "UE5_1_Plus"
          ELSE "Unknown"]

\* FVersionResolver::DetermineGeneration
DetermineGeneration(info) ==
    LET Major == info.EngineVersionMajor
        Minor == info.EngineVersionMinor
    IN [info EXCEPT !.Generation =
          IF Major = 4
          THEN IF Minor <= 19 THEN "UE4_16_19"
               ELSE IF Minor <= 22 THEN "UE4_20_22"
               ELSE IF Minor <= 24 THEN "UE4_23_24"
               ELSE IF Minor = 25 THEN "UE4_25"
               ELSE "UE4_26_27"
          ELSE IF Major = 5
          THEN IF Minor = 0 THEN "UE5_0" ELSE "UE5_1_Plus"
          ELSE "Unknown"]

\* ComputeFeatureFlags with the serializer flag read off the season number
\* instead of the product version.
ComputeFeatureFlagsMutSeason(info) ==
    LET Major == info.EngineVersionMajor
        Minor == info.EngineVersionMinor
    IN [info EXCEPT
          !.bUseFNamePool = (Major = 4 /\ Minor >= 23) \/ Major >= 5,
          !.bUseFField = (Major = 4 /\ Minor >= 25) \/ Major >= 5,
          !.bUseChunkedObjects = (Major = 4 /\ Minor >= 21) \/ Major >= 5,
          !.bUseNewFastArraySerializer = info.FortniteSeasonMajor >= 8,
          !.bUseTObjectPtr = Major >= 5,
          !.bSupportsSTW = info.FortniteVersion <= 2000]

\* FVersionResolver::ComputeFeatureFlags
ComputeFeatureFlags(info) ==
    LET Major == info.EngineVersionMajor
        Minor == info.EngineVersionMinor
        FN    == info.FortniteVersion
    IN [info EXCEPT
          !.bUseFNamePool = (Major = 4 /\ Minor >= 23) \/ Major >= 5,
          !.bUseFField = (Major = 4 /\ Minor >= 25) \/ Major >= 5,
          !.bUseChunkedObjects = (Major = 4 /\ Minor >= 21) \/ Major >= 5,
          !.bUseNewFastArraySerializer = FN >= 830,
          !.bUseTObjectPtr = Major >= 5,
          !.bSupportsSTW = FN <= 2000]

\* SupportsVersion without the upper limit on the minor of major 5, and with
\* later majors let through.
SupportsVersionMutMajor5(Info) ==
    IF Info.EngineVersionMajor = 4
    THEN Info.EngineVersionMinor >= 16 /\ Info.EngineVersionMinor <= 27
    ELSE Info.EngineVersionMajor >= 5

\* FVersionResolver::SupportsVersion
SupportsVersion(Info) ==
    IF Info.EngineVersionMajor = 4
    THEN Info.EngineVersionMinor >= 16 /\ Info.EngineVersionMinor <= 27
    ELSE IF Info.EngineVersionMajor = 5
    THEN Info.EngineVersionMinor <= 2
    ELSE FALSE

-----------------------------------------------------------------------------
(* DetectVersion                                                           *)

\* The end of DetectVersion, from the SupportsVersion check on.
DetectChecked(flagged, scans, strategy) ==
    IF ~SupportsVersion(flagged)
    THEN [result |-> "InvalidVersion", info |-> flagged, detected |-> FALSE,
          scans |-> scans, strategy |-> strategy]
    ELSE [result |-> "Success", info |-> flagged, detected |-> TRUE,
          scans |-> scans, strategy |-> strategy]

\* DetectVersion once a strategy has answered with the record found.
DetectTail(found, scans, strategy) ==
    DetectChecked(ComputeFeatureFlags(DetermineGeneration(found)), scans, strategy)

\* DetectVersion's if / else-if chain over the three strategies; a, b, c are
\* the strategies' answers, scans counts the pattern scans issued so far.
DetectAfterPatterns(c, scans) ==
    IF c.ok THEN DetectTail(c.info, scans, "Patterns")
    ELSE [result |-> "InvalidVersion", info |-> c.info, detected |-> FALSE,
          scans |-> scans, strategy |-> "None"]

DetectAfterCL(b, env) ==
    IF b.ok THEN DetectTail(b.info, 2, "CL")
    ELSE DetectAfterPatterns(TryDetectFromPatterns(b.info, env.pat),
                             2 + PatternScans(env.pat))

DetectAfterVersionInfo(a, env) ==
    IF a.ok THEN DetectTail(a.info, 1, "VersionInfo")
    ELSE DetectAfterCL(TryDetectFromCL(a.info, env.ev), env)

\* FVersionResolver::DetectVersion as a function of the resolver's fields and
\* of what the scans find (env): the EResult, the fields afterwards, the
\* number of scans issued and the strategy that answered.
DetectVersionOp(info, detected, env) ==
    IF detected
    THEN [result |-> "AlreadyInitialized", info |-> info, detected |-> detected,
          scans |-> 0, strategy |-> "None"]
    ELSE DetectAfterVersionInfo(TryDetectFromVersionInfo(info, env.vs), env)

-----------------------------------------------------------------------------
(* What the scans can find                                                 *)

PatternNames == {"FField", "FNamePool", "OldGNames", "Chunked"}

\* Counters on both edges of every table row, and one inside a row.
InRangeCLs ==
    { s_CLMappings[i][1] : i \in 1..s_CLMappingCount } \cup
    { s_CLMappings[i][2] - 1 : i \in 1..s_CLMappingCount } \cup
    { 9000000 }

\* Counters in no row: just below the first, at the end of the last, far above.
OutOfRangeCLs ==
    { s_CLMappings[1][1] - 1, s_CLMappings[s_CLMappingCount][2], 2000000000 }

VersionString(c) == [found |-> TRUE, hasCL |-> TRUE, cl |-> c]
VersionStringsFailing ==
    { [found |-> FALSE, hasCL |-> FALSE, cl |-> 0],
      [found |-> TRUE,  hasCL |-> FALSE, cl |-> 0],
      VersionString(0) } \cup { VersionString(c) : c \in OutOfRangeCLs }

EngineVersion(c) == [found |-> TRUE, parsed |-> TRUE, cl |-> c]
EngineVersionNotFound == [found |-> FALSE, parsed |-> FALSE, cl |-> 0]
EngineVersionsFailing ==
    { EngineVersionNotFound,
      [found |-> TRUE, parsed |-> FALSE, cl |-> 0],
      EngineVersion(0) } \cup { EngineVersion(c) : c \in OutOfRangeCLs }

\* The environments a DetectVersion() call is tried in: every strategy answers
\* in some of them, after every way the earlier strategies can fail.
DetectEnvs ==
    { [vs |-> VersionString(c), ev |-> EngineVersionNotFound, pat |-> {}] :
         c \in InRangeCLs } \cup
    { [vs |-> a, ev |-> EngineVersion(c), pat |-> {}] :
         a \in VersionStringsFailing, c \in InRangeCLs } \cup
    { [vs |-> a, ev |-> b, pat |-> p] :
         a \in VersionStringsFailing, b \in EngineVersionsFailing,
         p \in SUBSET PatternNames }

NoEnv == [vs |-> [found |-> FALSE, hasCL |-> FALSE, cl |-> 0],
          ev |-> EngineVersionNotFound, pat |-> {}]

\* Platform versions SupportsVersion() is asked about: both edges of each arm.
QueryMajors == {0, 3, 4, 5, 6}
QueryMinors == {0, 2, 3, 15, 16, 27, 28}

-----------------------------------------------------------------------------
(* Initial state: every singleton as constructed                           *)

InitResolver ==
    /\ m_VersionInfo = DefaultVersionInfo
    /\ m_bDetected = FALSE
    /\ lastDetect = [called |-> FALSE, result |-> "None", env |-> NoEnv,
                     scans |-> 0, strategy |-> "None",
                     preDetected |-> FALSE, preInfo |-> DefaultVersionInfo]
    /\ lastQuery = [asked |-> FALSE, major |-> 0, minor |-> 0, answer |-> FALSE]

\* The resolver's part of a DetectVersion() call in environment env.
ApplyDetect(env) ==
    \E r \in {DetectVersionOp(m_VersionInfo, m_bDetected, env)} :
    /\ m_VersionInfo' = r.info
    /\ m_bDetected' = r.detected
    /\ lastDetect' = [called |-> TRUE, result |-> r.result,
                      env |-> IF m_bDetected THEN NoEnv ELSE env,
                      scans |-> r.scans, strategy |-> r.strategy,
                      preDetected |-> m_bDetected, preInfo |-> m_VersionInfo]

\* FVersionResolver::DetectVersion(), called on its own, in any environment of E.
DetectVersionIn(E) ==
    /\ IF m_bDetected THEN ApplyDetect(NoEnv) ELSE \E env \in E : ApplyDetect(env)
    /\ UNCHANGED lastQuery

\* IVersionResolver::SupportsVersion(Info): a const query, any caller, any Info.
SupportsVersionQuery ==
    /\ \E major \in QueryMajors, minor \in QueryMinors :
         lastQuery' =
           [asked |-> TRUE, major |-> major, minor |-> minor,
            answer |-> SupportsVersion([DefaultVersionInfo EXCEPT
                                          !.EngineVersionMajor = major,
                                          !.EngineVersionMinor = minor])]
    /\ UNCHANGED <<m_VersionInfo, m_bDetected, lastDetect>>

-----------------------------------------------------------------------------
(* Engine core, offset resolver, property iterator                         *)

\* FEngineCoreStatus::FEngineCoreStatus()
DefaultStatus ==
    [ bVersionResolved |-> FALSE, bOffsetsResolved |-> FALSE,
      bObjectArrayInitialized |-> FALSE, bNamePoolInitialized |-> FALSE,
      bHooksInitialized |-> FALSE, bFullyInitialized |-> FALSE ]

NullTable == [variant |-> "null", bInitialized |-> FALSE]

\* CreateObjectArray(): the variant is read off the resolver's current record.
CreateObjectArray(info) ==
    [variant |-> IF info.bUseChunkedObjects THEN "FChunkedObjectArray"
                 ELSE "FFixedObjectArray",
     bInitialized |-> FALSE]

\* CreateNamePool()
CreateNamePool(info) ==
    [variant |-> IF info.bUseFNamePool THEN "FNamePoolImpl" ELSE "FGNamesArray",
     bInitialized |-> FALSE]

\* CreatePropertyIterator()
CreatePropertyIterator(info) ==
    [variant |-> IF info.bUseFField THEN "FFFieldPropertyIterator"
                 ELSE "FUPropertyIterator",
     bInitialized |-> FALSE]

\* GetPropertyIterator(): creates and initializes the global on first use.
\* F*PropertyIterator::Initialize() needs nothing and always succeeds (offsets
\* that read 0 are replaced by built-in defaults).
GetPropertyIteratorOp(iter, info) ==
    IF iter.variant = "null"
    THEN [CreatePropertyIterator(info) EXCEPT !.bInitialized = TRUE]
    ELSE iter

\* What one FEngineCore::Initialize() call meets in the host process.
CoreEnvs(E) ==
    [ mem : BOOLEAN, detect : E, gobjects : BOOLEAN, objInit : BOOLEAN,
      gnames : BOOLEAN, nameInit : BOOLEAN, hook : BOOLEAN ]

InitCore ==
    /\ s_bInitialized = FALSE
    /\ m_bResolved = FALSE
    /\ m_Status = DefaultStatus
    /\ m_pObjectArray = NullTable
    /\ m_pNamePool = NullTable
    /\ g_bHookInitialized = FALSE
    /\ g_PropertyIterator = NullTable
    /\ lastCore = [called |-> FALSE, result |-> "None"]

\* FEngineCore::Initialize(), with every step it calls: Memory::Initialize,
\* InitializeVersion, InitializeOffsets (FStubOffsetResolver::ResolveOffsets),
\* InitializeObjectArray, InitializeNamePool, InitializeHooks.  A step is
\* reached when all steps before it returned Success.
EngineInitializeIn(env) ==
      IF m_Status.bFullyInitialized
      THEN /\ lastCore' = [called |-> TRUE, result |-> "AlreadyInitialized"]
           /\ UNCHANGED <<resolverVars, s_bInitialized, m_bResolved, m_Status,
                          m_pObjectArray, m_pNamePool, g_bHookInitialized,
                          g_PropertyIterator>>
      ELSE
        \E det \in {DetectVersionOp(m_VersionInfo, m_bDetected, env.detect)} :
        LET memR  == IF s_bInitialized THEN "AlreadyInitialized"
                     ELSE IF env.mem THEN "Success" ELSE "Failed"
            go2   == memR = "Success"
            go3   == go2 /\ det.result = "Success"
            offR  == IF m_bResolved THEN "AlreadyInitialized" ELSE "Success"
            go4   == go3 /\ offR = "Success"
            objR  == IF ~env.gobjects THEN "PatternNotFound"
                     ELSE IF env.objInit THEN "Success" ELSE "Failed"
            go5   == go4 /\ objR = "Success"
            nameR == IF ~env.gnames THEN "PatternNotFound"
                     ELSE IF env.nameInit THEN "Success" ELSE "Failed"
            go6   == go5 /\ nameR = "Success"
            result == IF ~go2 THEN memR
                      ELSE IF ~go3 THEN det.result
                      ELSE IF ~go4 THEN offR
                      ELSE IF ~go5 THEN objR
                      ELSE IF ~go6 THEN nameR
                      ELSE "Success"
        IN
        /\ s_bInitialized' = (s_bInitialized \/ go2)
        /\ IF go2 THEN ApplyDetect(env.detect)
                  ELSE UNCHANGED <<m_VersionInfo, m_bDetected, lastDetect>>
        /\ m_bResolved' = (m_bResolved \/ go4)
        /\ m_pObjectArray' =
             IF go4 /\ env.gobjects
             THEN [CreateObjectArray(det.info) EXCEPT !.bInitialized = env.objInit]
             ELSE m_pObjectArray
        /\ m_pNamePool' =
             IF go5 /\ env.gnames
             THEN [CreateNamePool(det.info) EXCEPT !.bInitialized = env.nameInit]
             ELSE m_pNamePool
        \* Hook::Initialize(): its failure is logged and ignored.
        /\ g_bHookInitialized' = (g_bHookInitialized \/ (go6 /\ env.hook))
        /\ m_Status' =
             [ bVersionResolved |-> m_Status.bVersionResolved \/ go3,
               bOffsetsResolved |-> m_Status.bOffsetsResolved \/ go4,
               bObjectArrayInitialized |-> m_Status.bObjectArrayInitialized \/ go5,
               bNamePoolInitialized |-> m_Status.bNamePoolInitialized \/ go6,
               bHooksInitialized |-> m_Status.bHooksInitialized \/ go6,
               bFullyInitialized |-> go6 ]
        /\ lastCore' = [called |-> TRUE, result |-> result]
        /\ UNCHANGED <<lastQuery, g_PropertyIterator>>

\* FEngineCore::Initialize(), called in any environment of E.
EngineInitialize(E) == \E env \in CoreEnvs(E) : EngineInitializeIn(env)

\* FEngineCore::Shutdown(): the resolver, the offset resolver and
\* Memory keep their "already done" flags.
EngineShutdown ==
    /\ m_Status.bFullyInitialized
    /\ g_bHookInitialized' = FALSE
    /\ m_pNamePool' = NullTable
    /\ m_pObjectArray' = NullTable
    /\ m_Status' = DefaultStatus
    /\ UNCHANGED <<resolverVars, s_bInitialized, m_bResolved, g_PropertyIterator,
                   lastCore>>

\* GetPropertyIterator(), called by any consumer of the iterator.
GetPropertyIteratorCall ==
    /\ g_PropertyIterator' = GetPropertyIteratorOp(g_PropertyIterator, m_VersionInfo)
    /\ UNCHANGED <<resolverVars, s_bInitialized, m_bResolved, m_Status,
                   m_pObjectArray, m_pNamePool, g_bHookInitialized, lastCore>>

-----------------------------------------------------------------------------
(* ProcessEvent dispatcher                                                 *)

\* std::string values are sequences of characters.
EmptyStr == << >>
Str_Server == <<"S","e","r","v","e","r">>
Str_Client == <<"C","l","i","e","n","t">>
Str_Multicast == <<"M","u","l","t","i","c","a","s","t">>
Str_ServerMove == <<"S","e","r","v","e","r","M","o","v","e">>
Str_Pawn == <<"P","a","w","n">>
Str_PlayerPawn == <<"P","l","a","y","e","r","P","a","w","n">>
Str_Actor == <<"A","c","t","o","r">>

\* s.find(p) == 0
StartsWith(s, p) == Len(p) <= Len(s) /\ SubSeq(s, 1, Len(p)) = p

\* s.find(p) != std::string::npos
Contains(s, p) ==
    \E k \in 0..(Len(s) - Len(p)) : SubSeq(s, k + 1, k + Len(p)) = p

\* The part of FProcessEventContext the filters read, as OnProcessEvent
\* derives it from the names of the object's class and of the function.
MakeContext(ev) ==
    [ ObjectClassName |-> ev.cls,
      FunctionName |-> ev.fn,
      bIsRPC |-> StartsWith(ev.fn, Str_Server) \/ StartsWith(ev.fn, Str_Client),
      bIsMulticast |-> Contains(ev.fn, Str_Multicast) ]

\* FEventFilter::Matches
Matches(Filter, Context) ==
    /\ (Filter.ObjectClassFilter # EmptyStr
          => Contains(Context.ObjectClassName, Filter.ObjectClassFilter))
    /\ (Filter.FunctionNameFilter # EmptyStr
          => Context.FunctionName = Filter.FunctionNameFilter)
    /\ (Filter.FunctionNamePrefix # EmptyStr
          => StartsWith(Context.FunctionName, Filter.FunctionNamePrefix))
    /\ ~(Filter.bServerOnly /\ ~Context.bIsRPC)
    /\ ~(Filter.bClientOnly /\ Context.bIsRPC)

\* FEventFilter::FEventFilter(): matches every call.
DefaultFilter ==
    [ ObjectClassFilter |-> EmptyStr, FunctionNameFilter |-> EmptyStr,
      FunctionNamePrefix |-> EmptyStr, bServerOnly |-> FALSE, bClientOnly |-> FALSE ]

\* The filters observers register with.
Filters ==
    { DefaultFilter,
      [DefaultFilter EXCEPT !.ObjectClassFilter = Str_Pawn, !.FunctionNamePrefix = Str_Server] }

\* The intercepted calls: class name of the object, name of the function,
\* whether the Parameters pointer is non-null.
Events ==
    { [cls |-> Str_PlayerPawn, fn |-> Str_ServerMove, params |-> TRUE],
      [cls |-> Str_Actor, fn |-> Str_ServerMove, params |-> FALSE] }

Priorities == {5, 10}

\* RegisterHandler() calls explored, and OnProcessEvent() calls explored per
\* Initialize().
MaxRegistrations == 2
MaxEvents == 2

\* SortHandlers leaving the vector as registered.
SortedArrangementsMutUnsorted(v) == {v}

\* The orders std::sort may leave v in under the comparator
\* A.Priority > B.Priority: every arrangement of the same elements that is
\* non-increasing in Priority (the sort is not stable).
SortedArrangements(v) ==
    LET n == Len(v)
        perms == { p \in [1..n -> 1..n] : \A i, j \in 1..n : i # j => p[i] # p[j] }
        arr(p) == [i \in 1..n |-> v[p[i]]]
    IN { arr(p) : p \in { q \in perms :
                            \A i \in 1..n, j \in 1..n :
                               i < j => v[q[i]].Priority >= v[q[j]].Priority } }

\* DispatchFrom without the break after a callback returned false.
RECURSIVE DispatchFromMutNoBreak(_, _, _, _)
DispatchFromMutNoBreak(handlers, Context, rets, i) ==
    IF i > Len(handlers)
    THEN [invoked |-> << >>, returns |-> << >>, handled |-> 0, blocked |-> 0,
          allow |-> TRUE]
    ELSE
      LET H == handlers[i]
          rest == DispatchFromMutNoBreak(handlers, Context, rets, i + 1)
      IN IF ~H.bEnabled \/ ~Matches(H.Filter, Context) THEN rest
         ELSE [invoked |-> <<H>> \o rest.invoked,
               returns |-> <<rets[i]>> \o rest.returns,
               handled |-> 1 + rest.handled,
               blocked |-> (IF rets[i] THEN 0 ELSE 1) + rest.blocked,
               allow |-> rets[i] /\ rest.allow]

\* DispatchFrom without the increment of m_TotalEventsBlocked.
RECURSIVE DispatchFromMutNoBlockedCount(_, _, _, _)
DispatchFromMutNoBlockedCount(handlers, Context, rets, i) ==
    IF i > Len(handlers)
    THEN [invoked |-> << >>, returns |-> << >>, handled |-> 0, blocked |-> 0,
          allow |-> TRUE]
    ELSE
      LET H == handlers[i] IN
      IF ~H.bEnabled \/ ~Matches(H.Filter, Context)
      THEN DispatchFromMutNoBlockedCount(handlers, Context, rets, i + 1)
      ELSE IF rets[i]
      THEN LET rest == DispatchFromMutNoBlockedCount(handlers, Context, rets, i + 1)
           IN [invoked |-> <<H>> \o rest.invoked,
               returns |-> <<TRUE>> \o rest.returns,
               handled |-> 1 + rest.handled,
               blocked |-> rest.blocked,
               allow |-> rest.allow]
      ELSE [invoked |-> <<H>>, returns |-> <<FALSE>>, handled |-> 1,
            blocked |-> 0, allow |-> FALSE]

\* DispatchFrom without the test of bEnabled; a disabled handler's callback
\* returns true.
RECURSIVE DispatchFromMutIgnoreEnabled(_, _, _, _)
DispatchFromMutIgnoreEnabled(handlers, Context, rets, i) ==
    IF i > Len(handlers)
    THEN [invoked |-> << >>, returns |-> << >>, handled |-> 0, blocked |-> 0,
          allow |-> TRUE]
    ELSE
      LET H == handlers[i] IN
      IF ~Matches(H.Filter, Context)
      THEN DispatchFromMutIgnoreEnabled(handlers, Context, rets, i + 1)
      ELSE IF ~H.bEnabled \/ rets[i]
      THEN LET rest == DispatchFromMutIgnoreEnabled(handlers, Context, rets, i + 1)
           IN [invoked |-> <<H>> \o rest.invoked,
               returns |-> <<TRUE>> \o rest.returns,
               handled |-> 1 + rest.handled,
               blocked |-> rest.blocked,
               allow |-> rest.allow]
      ELSE [invoked |-> <<H>>, returns |-> <<FALSE>>, handled |-> 1,
            blocked |-> 1, allow |-> FALSE]

\* The second loop of OnProcessEvent from index i on, where rets[k] is what the
\* k-th handler's callback returns when it is called: the handlers invoked and
\* what each returned, what is added to m_TotalEventsHandled and
\* m_TotalEventsBlocked, and bAllowExecution.
RECURSIVE DispatchFrom(_, _, _, _)
DispatchFrom(handlers, Context, rets, i) ==
    IF i > Len(handlers)
    THEN [invoked |-> << >>, returns |-> << >>, handled |-> 0, blocked |-> 0,
          allow |-> TRUE]
    ELSE
      LET H == handlers[i] IN
      IF ~H.bEnabled \/ ~Matches(H.Filter, Context)
      THEN DispatchFrom(handlers, Context, rets, i + 1)
      ELSE IF rets[i]
      THEN LET rest == DispatchFrom(handlers, Context, rets, i + 1) IN
           [invoked |-> <<H>> \o rest.invoked,
            returns |-> <<TRUE>> \o rest.returns,
            handled |-> 1 + rest.handled,
            blocked |-> rest.blocked,
            allow |-> rest.allow]
      ELSE [invoked |-> <<H>>, returns |-> <<FALSE>>, handled |-> 1,
            blocked |-> 1, allow |-> FALSE]

\* The positions whose callback the second loop can call: only these have a
\* return value.
Callable(handlers, Context) ==
    { i \in 1..Len(handlers) :
        handlers[i].bEnabled /\ Matches(handlers[i].Filter, Context) }

\* The first loop of OnProcessEvent taking every matching handler for an
\* enabled one.
NeedsParsingMutIgnoreEnabled(handlers, Context) ==
    \E i \in 1..Len(handlers) : Matches(handlers[i].Filter, Context)

\* The first loop of OnProcessEvent: bNeedsParsing.
NeedsParsing(handlers, Context) ==
    \E i \in 1..Len(handlers) :
       handlers[i].bEnabled /\ Matches(handlers[i].Filter, Context)

NoEvent == [cls |-> EmptyStr, fn |-> EmptyStr, params |-> FALSE]

\* No OnProcessEvent() call is inside its dispatch loop.
NoLoop ==
    [active |-> FALSE, event |-> NoEvent, snapshot |-> << >>, pos |-> 1,
     end |-> 0, read |-> << >>, fault |-> FALSE]

\* What is observed when the latest call to the dispatcher was not an
\* OnProcessEvent().
NoCall ==
    [returned |-> FALSE, event |-> NoEvent, initialized |-> FALSE,
     invoked |-> << >>, returns |-> << >>, allow |-> TRUE, parsed |-> FALSE,
     resolved |-> FALSE]

InitDispatcher ==
    /\ m_bInitialized = FALSE
    /\ m_NextHandlerId = 1
    /\ m_Handlers = << >>
    /\ m_bHandlersDirty = FALSE
    /\ m_FunctionCache = {}
    /\ m_TotalEventsProcessed = 0
    /\ m_TotalEventsHandled = 0
    /\ m_TotalEventsBlocked = 0
    /\ lastEvent = NoCall
    /\ loop = NoLoop

\* FProcessEventDispatcher::OnProcessEvent(Object, Function, Parameters)
OnProcessEvent ==
    /\ ~m_bInitialized \/ m_TotalEventsProcessed < MaxEvents
    /\ \E ev \in Events :
         IF ~m_bInitialized
         THEN /\ lastEvent' = [returned |-> TRUE, event |-> ev,
                               initialized |-> FALSE, invoked |-> << >>,
                               returns |-> << >>, allow |-> TRUE,
                               parsed |-> FALSE, resolved |-> FALSE]
              /\ UNCHANGED <<m_Handlers, m_bHandlersDirty, m_FunctionCache,
                             m_TotalEventsProcessed, m_TotalEventsHandled,
                             m_TotalEventsBlocked>>
         ELSE
           \E sorted \in (IF m_bHandlersDirty THEN SortedArrangements(m_Handlers)
                          ELSE {m_Handlers}) :
           \E rets \in [Callable(sorted, MakeContext(ev)) -> BOOLEAN] :
             LET Context == MakeContext(ev)
                 bNeedsParsing == NeedsParsing(sorted, Context)
                 d == DispatchFrom(sorted, Context, rets, 1)
             IN
             /\ m_TotalEventsProcessed' = m_TotalEventsProcessed + 1
             /\ m_Handlers' = sorted
             /\ m_bHandlersDirty' = FALSE
             \* ParseParameters returns at once on a null Parameters; otherwise
             \* GetFunctionInfo resolves and caches the function's list.
             /\ m_FunctionCache' = IF bNeedsParsing /\ ev.params
                                   THEN m_FunctionCache \cup {ev.fn}
                                   ELSE m_FunctionCache
             /\ m_TotalEventsHandled' = m_TotalEventsHandled + d.handled
             /\ m_TotalEventsBlocked' = m_TotalEventsBlocked + d.blocked
             /\ lastEvent' = [returned |-> TRUE, event |-> ev,
                              initialized |-> TRUE, invoked |-> d.invoked,
                              returns |-> d.returns, allow |-> d.allow,
                              parsed |-> bNeedsParsing,
                              resolved |-> bNeedsParsing /\ ev.params]
    /\ UNCHANGED <<m_bInitialized, m_NextHandlerId>>
    /\ UNCHANGED <<resolverVars, coreVars, loop, probe>>

\* FProcessEventDispatcher::RegisterHandler with a callable Handler (an empty
\* std::function returns 0 and changes nothing).  Name is used for logging only.
RegisterHandler ==
    /\ m_NextHandlerId <= MaxRegistrations
    /\ \E Filter \in Filters, Priority \in Priorities :
         m_Handlers' = Append(m_Handlers,
                              [HandlerId |-> m_NextHandlerId, Filter |-> Filter,
                               Priority |-> Priority, bEnabled |-> TRUE])
    /\ m_NextHandlerId' = m_NextHandlerId + 1
    /\ m_bHandlersDirty' = TRUE
    /\ UNCHANGED <<m_bInitialized, m_FunctionCache, m_TotalEventsProcessed,
                   m_TotalEventsHandled, m_TotalEventsBlocked>>
    /\ lastEvent' = NoCall
    /\ UNCHANGED <<resolverVars, coreVars, loop, probe>>

\* std::remove_if + erase: the survivors keep their relative order.
RemoveHandler(handlers, HandlerId) ==
    SelectSeq(handlers, LAMBDA H : H.HandlerId # HandlerId)

\* FProcessEventDispatcher::UnregisterHandler
UnregisterHandler ==
    /\ \E HandlerId \in 1..MaxRegistrations :
         /\ \E i \in 1..Len(m_Handlers) : m_Handlers[i].HandlerId = HandlerId
         /\ m_Handlers' = RemoveHandler(m_Handlers, HandlerId)
    /\ UNCHANGED <<m_bInitialized, m_NextHandlerId, m_bHandlersDirty,
                   m_FunctionCache, m_TotalEventsProcessed, m_TotalEventsHandled,
                   m_TotalEventsBlocked>>
    /\ lastEvent' = NoCall
    /\ UNCHANGED <<resolverVars, coreVars, loop, probe>>

\* FProcessEventDispatcher::SetHandlerEnabled: the first handler with the id.
SetHandlerEnabled ==
    /\ \E HandlerId \in 1..MaxRegistrations, bEnabled \in BOOLEAN :
         \E i \in 1..Len(m_Handlers) :
            /\ m_Handlers[i].HandlerId = HandlerId
            /\ \A j \in 1..(i - 1) : m_Handlers[j].HandlerId # HandlerId
            /\ m_Handlers' = [m_Handlers EXCEPT ![i].bEnabled = bEnabled]
    /\ UNCHANGED <<m_bInitialized, m_NextHandlerId, m_bHandlersDirty,
                   m_FunctionCache, m_TotalEventsProcessed, m_TotalEventsHandled,
                   m_TotalEventsBlocked>>
    /\ lastEvent' = NoCall
    /\ UNCHANGED <<resolverVars, coreVars, loop, probe>>

\* FProcessEventDispatcher::Initialize, with the GetPropertyIterator() call it
\* starts with (the iterator it gets is always initialized already).
DispatcherInitialize ==
    /\ ~m_bInitialized
    /\ g_PropertyIterator' = GetPropertyIteratorOp(g_PropertyIterator, m_VersionInfo)
    /\ m_Handlers' = << >>
    /\ m_FunctionCache' = {}
    /\ m_TotalEventsProcessed' = 0
    /\ m_TotalEventsHandled' = 0
    /\ m_TotalEventsBlocked' = 0
    /\ m_bInitialized' = TRUE
    /\ lastEvent' = NoCall
    /\ UNCHANGED <<m_NextHandlerId, m_bHandlersDirty, loop, probe>>
    /\ UNCHANGED <<resolverVars, s_bInitialized, m_bResolved, m_Status,
                   m_pObjectArray, m_pNamePool, g_bHookInitialized, lastCore>>

\* FProcessEventDispatcher::Shutdown
DispatcherShutdown ==
    /\ m_bInitialized
    /\ m_Handlers' = << >>
    /\ m_FunctionCache' = {}
    /\ m_bInitialized' = FALSE
    /\ UNCHANGED <<m_NextHandlerId, m_bHandlersDirty, m_TotalEventsProcessed,
                   m_TotalEventsHandled, m_TotalEventsBlocked>>
    /\ lastEvent' = NoCall
    /\ UNCHANGED <<resolverVars, coreVars, loop, probe>>

-----------------------------------------------------------------------------
(* OnProcessEvent() one loop iteration at a time                           *)

\* What an iteration reads when the iterator no longer points into the vector.
InvalidElement == [HandlerId |-> 0, Filter |-> DefaultFilter, Priority |-> 0,
                   bEnabled |-> FALSE]

HandlerIdsOf(handlers) == [i \in 1..Len(handlers) |-> handlers[i].HandlerId]

\* What *it can yield at position pos of a range-for over m_Handlers that began
\* when the vector was snapshot.  With the same elements in place the live
\* element is read.  After a push_back or an erase the iterators are
\* invalidated: the read yields the element now at that position, the element
\* that was there (the old storage), or something that is no handler.
ElementsReadable(handlers, snapshot, pos) ==
    IF HandlerIdsOf(handlers) = HandlerIdsOf(snapshot)
    THEN {handlers[pos]}
    ELSE {snapshot[pos], InvalidElement}
           \cup (IF pos <= Len(handlers) THEN {handlers[pos]} ELSE {})

\* OnProcessEvent up to the dispatch loop: the counter, SortHandlers, the
\* context, the bNeedsParsing loop and ParseParameters; then begin() and end()
\* of the range-for are taken.  There is no lock and no copy of m_Handlers.
BeginDispatch ==
    /\ m_bInitialized /\ ~loop.active
    /\ m_TotalEventsProcessed < MaxEvents
    /\ \E ev \in Events :
       \E sorted \in (IF m_bHandlersDirty THEN SortedArrangements(m_Handlers)
                      ELSE {m_Handlers}) :
         /\ m_TotalEventsProcessed' = m_TotalEventsProcessed + 1
         /\ m_Handlers' = sorted
         /\ m_bHandlersDirty' = FALSE
         /\ m_FunctionCache' =
              IF NeedsParsing(sorted, MakeContext(ev)) /\ ev.params
              THEN m_FunctionCache \cup {ev.fn} ELSE m_FunctionCache
         /\ loop' = [active |-> sorted # << >>, event |-> ev, snapshot |-> sorted,
                     pos |-> 1, end |-> Len(sorted), read |-> << >>,
                     fault |-> FALSE]
    /\ lastEvent' = NoCall
    /\ UNCHANGED <<m_bInitialized, m_NextHandlerId, m_TotalEventsHandled,
                   m_TotalEventsBlocked>>
    /\ UNCHANGED <<resolverVars, coreVars, probe>>

\* One iteration of the dispatch loop, or its exit at it == end.  Other calls
\* on the dispatcher (from the callback just run, or from another thread) may
\* have happened since the previous iteration.
StepDispatch ==
    /\ loop.active
    /\ IF loop.pos > loop.end
       THEN /\ loop' = [loop EXCEPT !.active = FALSE]
            /\ UNCHANGED <<m_TotalEventsHandled, m_TotalEventsBlocked>>
       ELSE \E H \in ElementsReadable(m_Handlers, loop.snapshot, loop.pos),
               bContinue \in BOOLEAN :
              IF H = InvalidElement
              THEN /\ loop' = [loop EXCEPT !.active = FALSE, !.fault = TRUE,
                                           !.read = Append(@, H)]
                   /\ UNCHANGED <<m_TotalEventsHandled, m_TotalEventsBlocked>>
              ELSE IF ~H.bEnabled \/ ~Matches(H.Filter, MakeContext(loop.event))
              THEN /\ loop' = [loop EXCEPT !.pos = @ + 1, !.read = Append(@, H)]
                   /\ UNCHANGED <<m_TotalEventsHandled, m_TotalEventsBlocked>>
              ELSE /\ m_TotalEventsHandled' = m_TotalEventsHandled + 1
                   /\ m_TotalEventsBlocked' =
                        m_TotalEventsBlocked + (IF bContinue THEN 0 ELSE 1)
                   /\ loop' = [loop EXCEPT !.pos = @ + 1,
                                           !.active = bContinue,
                                           !.read = Append(@, H)]
    /\ UNCHANGED <<m_bInitialized, m_NextHandlerId, m_Handlers, m_bHandlersDirty,
                   m_FunctionCache, m_TotalEventsProcessed, lastEvent>>
    /\ UNCHANGED <<resolverVars, coreVars, probe>>

-----------------------------------------------------------------------------
(* ObjectArray.cpp: FFixedObjectArray and FChunkedObjectArray              *)
(*                                                                         *)
(* Addresses are integers.  The memory of the host process is an input of  *)
(* every call.  Initialize sees the header: header.num is its NumElements   *)
(* field, header.readable whether Memory::Read can read it.  A lookup sees  *)
(* mem.nullChunks, the chunks whose pointer is null, mem.unreadable, the    *)
(* regions Memory::Read cannot read, and mem.freed, the object indices      *)
(* whose slot holds a null Object.                                          *)

ElementsPerChunk == 65536
ItemSize == 24
PtrSize == 8
NullPtr == 0

HeaderAddress == 256
ChunkTableBase == 4096
ChunkSpan == 16777216
ChunkBase(c) == (c + 1) * ChunkSpan
ObjectPtr(n) == 1073741824 + n

\* The region an address lies in.
RegionOf(addr) ==
    IF addr >= ChunkSpan THEN "items"
    ELSE IF addr >= ChunkTableBase THEN "chunkTable"
    ELSE "header"

\* The pointer stored at addr: an entry of the chunk-pointer array, or the
\* Object field of the item record that begins at addr.  In the flat layout
\* the records of all indices follow each other from ChunkBase(0); in the
\* chunked layout chunk c holds the indices c * ElementsPerChunk onwards.
StoredPointer(mem, addr) ==
    IF RegionOf(addr) = "chunkTable"
    THEN IF ((addr - ChunkTableBase) \div PtrSize) \in mem.nullChunks
         THEN NullPtr
         ELSE ChunkBase((addr - ChunkTableBase) \div PtrSize)
    ELSE IF ((addr \div ChunkSpan) - 1) * ElementsPerChunk
              + ((addr % ChunkSpan) \div ItemSize) \in mem.freed
         THEN NullPtr
         ELSE ObjectPtr(((addr \div ChunkSpan) - 1) * ElementsPerChunk
                          + ((addr % ChunkSpan) \div ItemSize))

\* Memory::Read<T>(Address, OutValue)
MemoryRead(mem, addr) ==
    IF addr = 0 \/ RegionOf(addr) \in mem.unreadable
    THEN [ok |-> FALSE, value |-> NullPtr]
    ELSE [ok |-> TRUE, value |-> StoredPointer(mem, addr)]

\* The object array as its constructor leaves it.
NewObjectArray(variant) ==
    [variant |-> variant, m_bInitialized |-> FALSE, m_NumElements |-> 0,
     m_Ptr |-> NullPtr]

\* Initialize(Address): the result and the object array afterwards.
ObjectArrayInitializeOp(table, Address, header) ==
    IF table.m_bInitialized
    THEN [result |-> "AlreadyInitialized", table |-> table]
    ELSE IF Address = 0 \/ ~header.readable
    THEN [result |-> "Failed", table |-> table]
    ELSE [result |-> "Success",
          table |-> [table EXCEPT
                       !.m_bInitialized = TRUE,
                       !.m_NumElements = header.num,
                       !.m_Ptr = IF table.variant = "Chunked"
                                 THEN ChunkTableBase ELSE ChunkBase(0)]]

\* Num()
ObjectArrayNum(table) == table.m_NumElements

IsValidIndexMutInclusive(table, Index) ==
    table.m_bInitialized /\ Index >= 0 /\ Index <= table.m_NumElements

\* IsValidIndex(Index), the same in both variants
IsValidIndex(table, Index) ==
    table.m_bInitialized /\ Index >= 0 /\ Index < table.m_NumElements

ChunkIndexOfMutOffByOne(Index) == (Index + 1) \div ElementsPerChunk

ChunkIndexOf(Index) == Index \div ElementsPerChunk
WithinChunkIndexOf(Index) == Index % ElementsPerChunk

\* The address of the item record: [ok, addr]; ok is FALSE when no record
\* is reached (chunk pointer unreadable or null).
ItemAddrAt(table, Index, chunkPtr) ==
    IF ~chunkPtr.ok \/ chunkPtr.value = NullPtr
    THEN [ok |-> FALSE, addr |-> NullPtr]
    ELSE [ok |-> TRUE,
          addr |-> chunkPtr.value + WithinChunkIndexOf(Index) * ItemSize]

ItemAddr(table, Index, mem) ==
    IF table.variant = "Chunked"
    THEN ItemAddrAt(table, Index,
                    MemoryRead(mem, table.m_Ptr + ChunkIndexOf(Index) * PtrSize))
    ELSE [ok |-> TRUE, addr |-> table.m_Ptr + Index * ItemSize]

ItemReadAt(item, mem) ==
    IF ~item.ok THEN [ok |-> FALSE, Object |-> NullPtr, addr |-> NullPtr]
    ELSE [ok |-> MemoryRead(mem, item.addr).ok,
          Object |-> MemoryRead(mem, item.addr).value,
          addr |-> item.addr]

\* GetItemByIndex(Index, OutItem): the result, OutItem.Object and the address
\* the record was read at.
GetItemByIndex(table, Index, mem) ==
    IF ~IsValidIndex(table, Index)
    THEN [ok |-> FALSE, Object |-> NullPtr, addr |-> NullPtr]
    ELSE ItemReadAt(ItemAddr(table, Index, mem), mem)

\* GetByIndex(Index)
GetByIndex(table, Index, mem) == GetItemByIndex(table, Index, mem).Object

Variants == {"Fixed", "Chunked"}
Counts == {0, 1, ElementsPerChunk, ElementsPerChunk + 1, ElementsPerChunk + 2}
Indices == {-1, 0, 1, ElementsPerChunk - 1, ElementsPerChunk,
            ElementsPerChunk + 1, ElementsPerChunk + 2}
Headers == [num : Counts, readable : BOOLEAN]
Memories == [nullChunks : {{}, {0}, {1}},
             unreadable : {{}, {"chunkTable"}, {"items"}},
             freed : {{}, {0}}]

\* CreateObjectArray(): one of the two variants is constructed.
ObjectArrayCreate ==
    /\ \E v \in Variants :
         probe' = [op |-> "Create", table |-> NewObjectArray(v)]
    /\ UNCHANGED <<resolverVars, coreVars, dispatchVars>>

ObjectArrayInitialize ==
    /\ probe.op \in {"Create", "Initialize", "GetByIndex", "GetItemByIndex"}
    /\ \E Address \in {0, HeaderAddress}, header \in Headers :
       \E r \in {ObjectArrayInitializeOp(probe.table, Address, header)} :
         probe' = [op |-> "Initialize", table |-> r.table, result |-> r.result]
    /\ UNCHANGED <<resolverVars, coreVars, dispatchVars>>

ObjectArrayGetByIndex ==
    /\ probe.op \in {"Create", "Initialize", "GetByIndex", "GetItemByIndex"}
    /\ \E Index \in Indices, mem \in Memories :
         probe' = [op |-> "GetByIndex", table |-> probe.table, mem |-> mem,
                   Index |-> Index,
                   result |-> GetByIndex(probe.table, Index, mem),
                   addr |-> GetItemByIndex(probe.table, Index, mem).addr]
    /\ UNCHANGED <<resolverVars, coreVars, dispatchVars>>

ObjectArrayGetItemByIndex ==
    /\ probe.op \in {"Create", "Initialize", "GetByIndex", "GetItemByIndex"}
    /\ \E Index \in Indices, mem \in Memories :
       \E r \in {GetItemByIndex(probe.table, Index, mem)} :
         probe' = [op |-> "GetItemByIndex", table |-> probe.table, mem |-> mem,
                   Index |-> Index, result |-> r.ok, addr |-> r.addr,
                   Object |-> r.Object]
    /\ UNCHANGED <<resolverVars, coreVars, dispatchVars>>

-----------------------------------------------------------------------------
(* NamePool.cpp: FGNamesArray and FNamePoolImpl                            *)
(*                                                                         *)
(* Characters are their codes, 0 the terminator; a string is a tuple of    *)
(* codes.  What a lookup finds in the host process is its input mem:       *)
(* mem.chunk is the chunk / block pointer read ("ok", "null" or            *)
(* "unreadable"), mem.entryPtr the entry pointer read (chunk array only),  *)
(* mem.header the read of the entry header, mem.wide its wide flag,        *)
(* mem.text the characters stored, mem.lenKind how the entry ends, and     *)
(* mem.readable how many of its characters Memory::Read can read.          *)

MaxNameLength == 1023
NameElementsPerChunk == 16384
MaxChunks == 128
BlockShift == 65536
AllReadable == MaxNameLength + 1
FillerChar == 120
Str_NamePawn == <<80, 97, 119, 110>>
Str_NameAc == <<65, 99>>

Max(a, b) == IF a >= b THEN a ELSE b

\* A static buffer of MaxNameLength + 1 characters: the characters of prefix,
\* then fill up to position MaxNameLength - 1, then zero.
ZeroBuffer == [prefix |-> << >>, fill |-> 0]

BufferAt(buf, i) ==
    IF i < Len(buf.prefix) THEN buf.prefix[i + 1]
    ELSE IF i < MaxNameLength THEN buf.fill
    ELSE 0

\* Buffer[i] = chars[i] for the positions of chars, from position 0.
BufferStore(buf, chars) ==
    [buf EXCEPT !.prefix =
        [j \in 1..Max(Len(buf.prefix), Len(chars)) |->
            IF j <= Len(chars) THEN chars[j] ELSE buf.prefix[j]]]

\* Buffer[i] = c
BufferPut(buf, i, c) ==
    IF i >= MaxNameLength THEN buf
    ELSE [buf EXCEPT !.prefix =
            [j \in 1..Max(Len(buf.prefix), i + 1) |->
                IF j = i + 1 THEN c ELSE BufferAt(buf, j - 1)]]

\* The first n characters of the entry's data.
DataChars(mem, n) ==
    [j \in 1..n |->
        IF mem.lenKind = "zero" THEN 0
        ELSE IF j <= Len(mem.text) THEN mem.text[j]
        ELSE IF mem.lenKind = "overlong" THEN FillerChar
        ELSE 0]

\* The position of the first zero character of the data, MaxNameLength if
\* there is none below it.
FirstZero(mem) ==
    IF mem.lenKind = "zero" THEN 0
    ELSE IF mem.lenKind = "overlong" THEN MaxNameLength
    ELSE Len(mem.text)

\* The Len field of a packed entry's header.
HeaderLen(mem) ==
    IF mem.lenKind = "zero" THEN 0
    ELSE IF mem.lenKind = "overlong" THEN MaxNameLength + 1
    ELSE Len(mem.text)

\* FResolvedName as its constructor leaves it.
NewResolvedName == [AnsiName |-> FALSE, WideName |-> FALSE, bIsWide |-> FALSE,
                    Length |-> 0]

\* ToString() with the wide loop ending one character early.
ResolvedToStringMutWideShort(Name, AnsiBuffer, WideBuffer) ==
    IF Name.bIsWide /\ Name.WideName
    THEN [j \in 1..Cardinality({k \in 1..(Name.Length - 1) :
                   \A m \in 0..(k - 1) : BufferAt(WideBuffer, m) # 0}) |->
              BufferAt(WideBuffer, j - 1) % 256]
    ELSE IF Name.AnsiName
    THEN [j \in 1..Name.Length |-> BufferAt(AnsiBuffer, j - 1)]
    ELSE << >>

\* FResolvedName::ToString(): a wide name is narrowed character by character
\* up to Length or the first zero; an ANSI name is exactly Length characters
\* of the buffer.
ResolvedToString(Name, AnsiBuffer, WideBuffer) ==
    IF Name.bIsWide /\ Name.WideName
    THEN [j \in 1..Cardinality({k \in 1..Name.Length :
                   \A m \in 0..(k - 1) : BufferAt(WideBuffer, m) # 0}) |->
              BufferAt(WideBuffer, j - 1) % 256]
    ELSE IF Name.AnsiName
    THEN [j \in 1..Name.Length |-> BufferAt(AnsiBuffer, j - 1)]
    ELSE << >>

\* The name pool as its constructor leaves it.
NewNamePool(variant) ==
    [variant |-> variant, m_bInitialized |-> FALSE, m_NumElements |-> 0,
     m_NumBlocks |-> 0]

\* Initialize(Address).  header.chunks is the number of leading non-null chunk
\* pointers, header.CurrentBlock the allocator's current block.
NamePoolInitializeOp(table, Address, header) ==
    IF table.m_bInitialized
    THEN [result |-> "AlreadyInitialized", table |-> table]
    ELSE IF Address = 0 \/ ~header.readable
    THEN [result |-> "Failed", table |-> table]
    ELSE IF table.variant = "Pool"
    THEN [result |-> "Success",
          table |-> [table EXCEPT !.m_bInitialized = TRUE,
                                  !.m_NumBlocks = header.CurrentBlock + 1]]
    ELSE [result |-> "Success",
          table |-> [table EXCEPT
                       !.m_bInitialized = TRUE,
                       !.m_NumElements =
                           (IF header.chunks < MaxChunks THEN header.chunks
                            ELSE MaxChunks) * NameElementsPerChunk]]

NameIsValidIndex(table, Index) ==
    IF table.variant = "Pool"
    THEN table.m_bInitialized /\ Index >= 0
    ELSE table.m_bInitialized /\ Index >= 0 /\ Index < table.m_NumElements

NameNum(table) ==
    IF table.variant = "Pool" THEN -1 ELSE table.m_NumElements

GetNameFailed(AnsiBuffer, WideBuffer) ==
    [ok |-> FALSE, Name |-> NewResolvedName,
     AnsiBuffer |-> AnsiBuffer, WideBuffer |-> WideBuffer]

\* The character loop of FGNamesArray::GetName (lines 104-139): it ends at the
\* first unreadable character, after the first zero (setting Length), or
\* after MaxNameLength characters; Length is otherwise left as it was.
GNamesReadChars(mem, Name, AnsiBuffer, WideBuffer) ==
    LET unreadableFirst == mem.readable <= FirstZero(mem)
                             /\ mem.readable < MaxNameLength
        written == IF unreadableFirst THEN mem.readable
                   ELSE IF FirstZero(mem) < MaxNameLength
                        THEN FirstZero(mem) + 1
                        ELSE MaxNameLength
        Length == IF ~unreadableFirst /\ FirstZero(mem) < MaxNameLength
                  THEN FirstZero(mem) ELSE Name.Length
        Stored(buf) == IF written = MaxNameLength
                       THEN [prefix |-> mem.text, fill |-> FillerChar]
                       ELSE BufferStore(buf, DataChars(mem, written))
    IN [ok |-> TRUE,
        Name |-> [AnsiName |-> ~mem.wide, WideName |-> mem.wide,
                  bIsWide |-> mem.wide, Length |-> Length],
        AnsiBuffer |-> IF mem.wide THEN AnsiBuffer ELSE Stored(AnsiBuffer),
        WideBuffer |-> IF mem.wide THEN Stored(WideBuffer) ELSE WideBuffer]

\* FGNamesArray::GetName(ComparisonIndex, OutName)
GNamesGetName(table, ComparisonIndex, mem, Name, AnsiBuffer, WideBuffer) ==
    IF ~NameIsValidIndex(table, ComparisonIndex)
         \/ mem.chunk # "ok" \/ mem.entryPtr # "ok" \/ mem.header # "ok"
    THEN GetNameFailed(AnsiBuffer, WideBuffer)
    ELSE GNamesReadChars(mem, Name, AnsiBuffer, WideBuffer)

\* The character loop of FNamePoolImpl::GetName (lines 254-277): Length
\* characters, or fewer when one is unreadable; then Buffer[Length] = 0.
PoolReadChars(mem, AnsiBuffer, WideBuffer) ==
    LET written == IF mem.readable < HeaderLen(mem) THEN mem.readable
                   ELSE HeaderLen(mem)
        Stored(buf) == BufferPut(BufferStore(buf, DataChars(mem, written)),
                                 HeaderLen(mem), 0)
    IN [ok |-> TRUE,
        Name |-> [AnsiName |-> ~mem.wide, WideName |-> mem.wide,
                  bIsWide |-> mem.wide, Length |-> HeaderLen(mem)],
        AnsiBuffer |-> IF mem.wide THEN AnsiBuffer ELSE Stored(AnsiBuffer),
        WideBuffer |-> IF mem.wide THEN Stored(WideBuffer) ELSE WideBuffer]

\* FNamePoolImpl::GetName(ComparisonIndex, OutName)
PoolGetName(table, ComparisonIndex, mem, AnsiBuffer, WideBuffer) ==
    IF ~table.m_bInitialized \/ ComparisonIndex < 0
         \/ (ComparisonIndex \div BlockShift) >= table.m_NumBlocks
         \/ mem.chunk # "ok" \/ mem.header # "ok"
         \/ HeaderLen(mem) <= 0 \/ HeaderLen(mem) > MaxNameLength
    THEN GetNameFailed(AnsiBuffer, WideBuffer)
    ELSE PoolReadChars(mem, AnsiBuffer, WideBuffer)

\* GetNameString(ComparisonIndex) of either variant, on a fresh FResolvedName:
\* the string returned and the static buffers afterwards.
GetNameStringAfter(r) ==
    [result |-> IF r.ok
                THEN ResolvedToString(r.Name, r.AnsiBuffer, r.WideBuffer)
                ELSE << >>,
     ok |-> r.ok, AnsiBuffer |-> r.AnsiBuffer, WideBuffer |-> r.WideBuffer]

GetNameString(table, ComparisonIndex, mem, AnsiBuffer, WideBuffer) ==
    GetNameStringAfter(
        IF table.variant = "Pool"
        THEN PoolGetName(table, ComparisonIndex, mem, AnsiBuffer, WideBuffer)
        ELSE GNamesGetName(table, ComparisonIndex, mem, NewResolvedName,
                           AnsiBuffer, WideBuffer))

NameVariants == {"GNames", "Pool"}
NameHeaders == [readable : BOOLEAN, chunks : {0, 1}, CurrentBlock : {0}]
NameIndices == {-1, 0, 5, NameElementsPerChunk, BlockShift}
NameMemories ==
    [chunk : {"ok"}, entryPtr : {"ok"}, header : {"ok"}, wide : BOOLEAN,
     text : {Str_NamePawn, Str_NameAc},
     lenKind : {"exact", "zero", "overlong"}, readable : {0, 1, AllReadable}]
    \cup
    [chunk : {"null", "unreadable"}, entryPtr : {"ok"}, header : {"ok"},
     wide : {FALSE}, text : {Str_NamePawn}, lenKind : {"exact"},
     readable : {AllReadable}]
    \cup
    [chunk : {"ok"}, entryPtr : {"null", "unreadable"}, header : {"ok"},
     wide : {FALSE}, text : {Str_NamePawn}, lenKind : {"exact"},
     readable : {AllReadable}]
    \cup
    [chunk : {"ok"}, entryPtr : {"ok"}, header : {"unreadable"},
     wide : {FALSE}, text : {Str_NamePawn}, lenKind : {"exact"},
     readable : {AllReadable}]
MaxLookups == 2

\* CreateNamePool(): one of the two variants is constructed; the static
\* buffers of GetName are zero.
NamePoolCreate ==
    /\ probe.op = "None"
    /\ \E v \in NameVariants :
         probe' = [op |-> "NameCreate", table |-> NewNamePool(v),
                   AnsiBuffer |-> ZeroBuffer, WideBuffer |-> ZeroBuffer,
                   calls |-> 0]
    /\ UNCHANGED <<resolverVars, coreVars, dispatchVars>>

NamePoolInitialize ==
    /\ probe.op # "None"
    /\ \E Address \in {0, HeaderAddress}, header \in NameHeaders :
       \E r \in {NamePoolInitializeOp(probe.table, Address, header)} :
         probe' = [op |-> "NameInitialize", table |-> r.table,
                   AnsiBuffer |-> probe.AnsiBuffer,
                   WideBuffer |-> probe.WideBuffer, calls |-> probe.calls,
                   result |-> r.result]
    /\ UNCHANGED <<resolverVars, coreVars, dispatchVars>>

NamePoolGetNameString ==
    /\ probe.op # "None"
    /\ probe.calls < MaxLookups
    /\ \E ComparisonIndex \in NameIndices, mem \in NameMemories :
       \E r \in {GetNameString(probe.table, ComparisonIndex, mem,
                               probe.AnsiBuffer, probe.WideBuffer)} :
         probe' = [op |-> "GetNameString", table |-> probe.table,
                   AnsiBuffer |-> r.AnsiBuffer, WideBuffer |-> r.WideBuffer,
                   calls |-> probe.calls + 1,
                   ComparisonIndex |-> ComparisonIndex, mem |-> mem,
                   result |-> r.result, ok |-> r.ok]
    /\ UNCHANGED <<resolverVars, coreVars, dispatchVars>>

NamePoolNum ==
    /\ probe.op # "None"
    /\ probe' = [op |-> "NameNum", table |-> probe.table,
                 AnsiBuffer |-> probe.AnsiBuffer,
                 WideBuffer |-> probe.WideBuffer, calls |-> probe.calls,
                 result |-> NameNum(probe.table)]
    /\ UNCHANGED <<resolverVars, coreVars, dispatchVars>>

NamePoolIsValidIndex ==
    /\ probe.op # "None"
    /\ \E Index \in NameIndices :
         probe' = [op |-> "NameIsValidIndex", table |-> probe.table,
                   AnsiBuffer |-> probe.AnsiBuffer,
                   WideBuffer |-> probe.WideBuffer, calls |-> probe.calls,
                   Index |-> Index,
                   result |-> NameIsValidIndex(probe.table, Index)]
    /\ UNCHANGED <<resolverVars, coreVars, dispatchVars>>

-----------------------------------------------------------------------------
(* PropertyIterator.cpp: ForEachProperty and FindProperty                  *)
(*                                                                         *)
(* Types are the structs 1..3 of the host process, 0 the null pointer.     *)
(* env.super is the SuperStruct pointer stored in each struct and          *)
(* env.name21 the name that resolves for the one field of struct 2.  The   *)
(* walk of ForEachProperty is one step per loop iteration or recursive     *)
(* call; both iterator variants run the same loop.  PropertyFlags is the   *)
(* set of the EPropertyFlags bits that are set.                            *)

MaxStackDepth == 4
Structs == {1, 2, 3}

\* The fields reached from the head of a struct's chain through the next
\* pointers, each as ReadPropertyInfo describes it.
FieldsOf(env, Struct) ==
    IF Struct = 1
    THEN << [PropertyPtr |-> 11, Name |-> "Health", Offset |-> 4,
             PropertyFlags |-> {"CPF_Parm"}],
            [PropertyPtr |-> 13, Name |-> "Temp", Offset |-> 8,
             PropertyFlags |-> {}],
            [PropertyPtr |-> 12, Name |-> "Armor", Offset |-> 0,
             PropertyFlags |-> {"CPF_Parm", "CPF_OutParm"}] >>
    ELSE IF Struct = 2
    THEN << [PropertyPtr |-> 21, Name |-> env.name21, Offset |-> 8,
             PropertyFlags |-> {}] >>
    ELSE << [PropertyPtr |-> 31, Name |-> "Owner", Offset |-> 12,
             PropertyFlags |-> {"CPF_Parm", "CPF_ReturnParm"}] >>

TypeEnvs == [super : [Structs -> {0} \cup Structs], name21 : {"Armor", "Shield"}]

NoInfo == [PropertyPtr |-> 0, Name |-> "", Offset |-> 0, PropertyFlags |-> {}]
NoWalk == [active |-> FALSE, start |-> 0, Struct |-> 0, pos |-> 1, depth |-> 0,
           bIncludeSuper |-> FALSE, find |-> FALSE, TargetName |-> "",
           yielded |-> << >>, bFound |-> FALSE, OutInfo |-> NoInfo,
           overflow |-> FALSE]

\* ForEachProperty is entered: nothing to walk when the iterator is not
\* initialized or Struct is null.
WalkBegin(iter, Struct, bIncludeSuper, find, TargetName) ==
    [NoWalk EXCEPT !.active = iter.bInitialized /\ Struct # 0,
                   !.start = Struct, !.Struct = Struct,
                   !.bIncludeSuper = bIncludeSuper,
                   !.find = find, !.TargetName = TargetName]

FindCallbackMutKeepGoing(walk, Info) ==
    IF walk.find /\ Info.Name = walk.TargetName
    THEN [walk EXCEPT !.OutInfo = Info, !.bFound = TRUE, !.pos = @ + 1,
                      !.yielded = Append(@, Info)]
    ELSE [walk EXCEPT !.pos = @ + 1, !.yielded = Append(@, Info)]

\* Callback(Info) and what the loop does with its result: the lambda of
\* FindProperty stops the walk at the first field named TargetName, any
\* other callback here continues.
FindCallback(walk, Info) ==
    IF walk.find /\ Info.Name = walk.TargetName
    THEN [walk EXCEPT !.OutInfo = Info, !.bFound = TRUE, !.active = FALSE,
                      !.yielded = Append(@, Info)]
    ELSE [walk EXCEPT !.pos = @ + 1, !.yielded = Append(@, Info)]

\* WalkStep going up to the SuperStruct whatever bIncludeSuper is.
WalkStepMutAlwaysSuper(env, walk) ==
    IF walk.pos <= Len(FieldsOf(env, walk.Struct))
    THEN FindCallback(walk, FieldsOf(env, walk.Struct)[walk.pos])
    ELSE IF env.super[walk.Struct] = 0
    THEN [walk EXCEPT !.active = FALSE]
    ELSE IF walk.depth = MaxStackDepth
    THEN [walk EXCEPT !.overflow = TRUE]
    ELSE [walk EXCEPT !.Struct = env.super[walk.Struct], !.pos = 1,
                      !.depth = @ + 1]

\* One iteration of the while loop, or the end of the chain: return, or the
\* recursive call on a non-null SuperStruct.  There is no limit on the depth;
\* at MaxStackDepth frames the stack of the thread is exhausted and the call
\* never returns.
WalkStep(env, walk) ==
    IF walk.pos <= Len(FieldsOf(env, walk.Struct))
    THEN FindCallback(walk, FieldsOf(env, walk.Struct)[walk.pos])
    ELSE IF ~walk.bIncludeSuper \/ env.super[walk.Struct] = 0
    THEN [walk EXCEPT !.active = FALSE]
    ELSE IF walk.depth = MaxStackDepth
    THEN [walk EXCEPT !.overflow = TRUE]
    ELSE [walk EXCEPT !.Struct = env.super[walk.Struct], !.pos = 1,
                      !.depth = @ + 1]

\* GetPropertyIterator() in a process whose types are env.
FieldsGetPropertyIterator ==
    /\ probe.op = "None"
    /\ \E bUseFField \in BOOLEAN, env \in TypeEnvs :
         probe' = [op |-> "GetPropertyIterator",
                   iter |-> GetPropertyIteratorOp(NullTable,
                                                  [bUseFField |-> bUseFField]),
                   env |-> env, walk |-> NoWalk, all |-> << >>, f |-> NoInfo]
    /\ UNCHANGED <<resolverVars, coreVars, dispatchVars>>

\* ForEachProperty(Struct, Callback, bIncludeSuper) is called with a callback
\* that collects every field.
ForEachPropertyCall ==
    /\ probe.op # "None" /\ ~probe.walk.active
    /\ \E Struct \in {0} \cup Structs, bIncludeSuper \in BOOLEAN :
         probe' = [probe EXCEPT
                     !.op = "ForEachProperty",
                     !.walk = WalkBegin(probe.iter, Struct, bIncludeSuper,
                                        FALSE, ""),
                     !.all = << >>, !.f = NoInfo]
    /\ UNCHANGED <<resolverVars, coreVars, dispatchVars>>

\* FindProperty(Struct, f.Name, OutInfo) is called for a field f that the
\* ForEachProperty(Struct, ..., true) just returned has yielded.
FindPropertyCall ==
    /\ probe.op = "ForEachProperty" /\ ~probe.walk.active
    /\ probe.walk.bIncludeSuper
    /\ \E k \in 1..Len(probe.walk.yielded) :
         probe' = [probe EXCEPT
                     !.op = "FindProperty",
                     !.walk = WalkBegin(probe.iter, probe.walk.start, TRUE, TRUE,
                                        probe.walk.yielded[k].Name),
                     !.all = probe.walk.yielded,
                     !.f = probe.walk.yielded[k]]
    /\ UNCHANGED <<resolverVars, coreVars, dispatchVars>>

WalkStepCall ==
    /\ probe.op # "None" /\ probe.walk.active /\ ~probe.walk.overflow
    /\ probe' = [probe EXCEPT !.walk = WalkStep(probe.env, probe.walk)]
    /\ UNCHANGED <<resolverVars, coreVars, dispatchVars>>

-----------------------------------------------------------------------------
(* OffsetResolver.cpp: FStubOffsetResolver, and the iterators' use of it   *)

Zeroed(names) == [n \in names |-> 0]

\* FOffsetTable::FOffsetTable(): memset to zero, then the baseline offsets.
FOffsetTable ==
    [UObject |-> [Vtable |-> 0, ObjectFlags |-> 8, InternalIndex |-> 12,
                  Class |-> 16, Name |-> 24, Outer |-> 32],
     UField |-> [Next |-> 40],
     UStruct |-> [SuperStruct |-> 48, Children |-> 56, ChildProperties |-> 0,
                  PropertiesSize |-> 64, MinAlignment |-> 68],
     UClass |-> Zeroed({"ClassDefaultObject", "ClassConstructor"}),
     UFunction |-> Zeroed({"FunctionFlags", "NumParms", "ParmsSize",
                           "ReturnValueOffset", "Func"}),
     UProperty |-> Zeroed({"ElementSize", "Offset", "PropertyFlags", "Next"}),
     FField |-> Zeroed({"ClassPrivate", "Owner", "Next", "NamePrivate",
                        "FlagsPrivate"}),
     FProperty |-> Zeroed({"ElementSize", "Offset", "PropertyFlags"}),
     Controller |-> Zeroed({"BuildPreviewMarker", "CurrentBuildableClass",
                            "PreviousBuildableClass", "EditBuildingActor",
                            "QuickBars", "BuildPreviewMarkerMID",
                            "CheatManager", "PlayerState"}),
     Pawn |-> Zeroed({"Controller", "PlayerState", "CustomizationLoadout",
                      "CharacterParts"}),
     Inventory |-> Zeroed({"WorldInventory", "ItemInstances",
                           "ReplicatedEntries"}),
     Building |-> Zeroed({"BuildingActor", "BuildingMaterial",
                          "BuildingEditMode"}),
     Functions |-> Zeroed({"StaticConstructObject_Internal", "StaticLoadObject",
                           "SpawnActor", "ProcessEvent", "GObjects", "GNames",
                           "GWorld"})]

\* The FField and FProperty assignments shared by the 4.25+ arms.
WithFFieldOffsets(o, ElementSize, Offset, PropertyFlags) ==
    [o EXCEPT !.FField = [ClassPrivate |-> 0, Owner |-> 8, Next |-> 16,
                          NamePrivate |-> 24, FlagsPrivate |-> 32],
              !.FProperty = [ElementSize |-> ElementSize, Offset |-> Offset,
                             PropertyFlags |-> PropertyFlags]]

\* ApplyVersionSpecificOffsets(Version) on the table o: one arm per
\* generation, assigning the members that arm assigns.
ApplyVersionSpecificOffsets(o, Version) ==
    IF Version.Generation = "UE4_16_19"
    THEN [o EXCEPT !.Controller.BuildPreviewMarker = 6024,
                   !.Controller.CurrentBuildableClass = 6464,
                   !.Controller.PreviousBuildableClass = 6472,
                   !.Controller.EditBuildingActor = 6728,
                   !.Controller.QuickBars = 6792,
                   !.Controller.BuildPreviewMarkerMID = 6440,
                   !.UStruct.SuperStruct = 48, !.UStruct.Children = 56,
                   !.UStruct.ChildProperties = 0,
                   !.UStruct.PropertiesSize = 64]
    ELSE IF Version.Generation = "UE4_20_22"
    THEN [o EXCEPT !.Controller.BuildPreviewMarker = 6144,
                   !.Controller.CurrentBuildableClass = 6592,
                   !.Controller.PreviousBuildableClass = 6600,
                   !.Controller.QuickBars = 6928,
                   !.UStruct.SuperStruct = 48, !.UStruct.Children = 56,
                   !.UStruct.ChildProperties = 0,
                   !.UStruct.PropertiesSize = 68]
    ELSE IF Version.Generation = "UE4_23_24"
    THEN [o EXCEPT !.Controller.BuildPreviewMarker = 6272,
                   !.Controller.CurrentBuildableClass = 6720,
                   !.Controller.QuickBars = 7056,
                   !.UStruct.SuperStruct = 48, !.UStruct.Children = 56,
                   !.UStruct.ChildProperties = 0,
                   !.UStruct.PropertiesSize = 72]
    ELSE IF Version.Generation = "UE4_25"
    THEN WithFFieldOffsets(
           [o EXCEPT !.Controller.BuildPreviewMarker = 6400,
                     !.Controller.QuickBars = 7168,
                     !.UStruct.SuperStruct = 48, !.UStruct.Children = 56,
                     !.UStruct.ChildProperties = 64,
                     !.UStruct.PropertiesSize = 72], 56, 68, 72)
    ELSE IF Version.Generation = "UE4_26_27"
    THEN WithFFieldOffsets(
           [o EXCEPT !.Controller.BuildPreviewMarker = 6528,
                     !.Controller.QuickBars = 7296,
                     !.UStruct.SuperStruct = 48, !.UStruct.Children = 56,
                     !.UStruct.ChildProperties = 64,
                     !.UStruct.PropertiesSize = 76], 56, 68, 72)
    ELSE IF Version.Generation \in {"UE5_0", "UE5_1_Plus"}
    THEN WithFFieldOffsets(
           [o EXCEPT !.Controller.BuildPreviewMarker = 6656,
                     !.Controller.QuickBars = 7424,
                     !.UObject.Class = 16, !.UObject.Outer = 32,
                     !.UStruct.SuperStruct = 48, !.UStruct.Children = 64,
                     !.UStruct.ChildProperties = 72,
                     !.UStruct.PropertiesSize = 80], 64, 76, 80)
    ELSE o

\* FStubOffsetResolver::FStubOffsetResolver()
NewOffsetResolver == [m_bResolved |-> FALSE, m_Offsets |-> FOffsetTable]

ResolveOffsetsMutNoReset(r, Version) ==
    [result |-> "Success",
     resolver |-> [m_bResolved |-> TRUE,
                   m_Offsets |-> ApplyVersionSpecificOffsets(r.m_Offsets,
                                                             Version)]]

\* ResolveOffsets(Version)
ResolveOffsets(r, Version) ==
    IF r.m_bResolved
    THEN [result |-> "AlreadyInitialized", resolver |-> r]
    ELSE [result |-> "Success",
          resolver |-> [m_bResolved |-> TRUE,
                        m_Offsets |-> ApplyVersionSpecificOffsets(FOffsetTable,
                                                                  Version)]]

\* The names GetOffset(EOffsetCategory, Name) knows in each category and what
\* it returns for them.
KnownOffsets(o) ==
    [UObject |-> [Vtable |-> o.UObject.Vtable,
                  ObjectFlags |-> o.UObject.ObjectFlags,
                  InternalIndex |-> o.UObject.InternalIndex,
                  Class |-> o.UObject.Class, Name |-> o.UObject.Name,
                  Outer |-> o.UObject.Outer],
     UField |-> [Next |-> 48],
     UStruct |-> [SuperStruct |-> o.UStruct.SuperStruct,
                  Children |-> o.UStruct.Children,
                  ChildProperties |-> o.UStruct.ChildProperties,
                  PropertiesSize |-> o.UStruct.PropertiesSize,
                  PropertyLink |-> 80],
     UProperty |-> [ArrayDim |-> 56, ElementSize |-> 60, PropertyFlags |-> 64,
                    Offset_Internal |-> 76],
     FField |-> [ClassPrivate |-> 0, Owner |-> 8, Next |-> 32,
                 NamePrivate |-> 40],
     FProperty |-> [ArrayDim |-> 56, ElementSize |-> 60, PropertyFlags |-> 64,
                    Offset_Internal |-> 76],
     FFieldClass |-> [Name |-> 0],
     Controller |-> [BuildPreviewMarker |-> o.Controller.BuildPreviewMarker,
                     CurrentBuildableClass |->
                         o.Controller.CurrentBuildableClass,
                     QuickBars |-> o.Controller.QuickBars]]

\* The category names GetOffset(CategoryName, Name) maps to an enumerator.
CategoryNames == {"UObject", "UField", "UStruct", "UClass", "UFunction",
                  "UProperty", "FField", "FProperty", "FFieldClass",
                  "Controller", "Pawn", "Actor"}

\* GetOffset(CategoryName, Name): -1 for an unknown category, before
\* ResolveOffsets, and for a name the category does not know.
GetOffset(r, CategoryName, Name) ==
    IF CategoryName \notin CategoryNames \/ ~r.m_bResolved THEN -1
    ELSE IF CategoryName \in DOMAIN KnownOffsets(r.m_Offsets)
            /\ Name \in DOMAIN KnownOffsets(r.m_Offsets)[CategoryName]
    THEN KnownOffsets(r.m_Offsets)[CategoryName][Name]
    ELSE -1

\* The lookups of FUPropertyIterator::Initialize and of
\* FFFieldPropertyIterator::Initialize: member, category, name, and the
\* default taken when the lookup returned 0.
IteratorLookups(variant) ==
    IF variant = "FUPropertyIterator"
    THEN {<<"m_ChildrenOffset", "UStruct", "Children", 72>>,
          <<"m_PropertyLinkOffset", "UStruct", "PropertyLink", 80>>,
          <<"m_SuperStructOffset", "UStruct", "SuperStruct", 64>>,
          <<"m_UProperty_NextOffset", "UField", "Next", 48>>,
          <<"m_UProperty_ArrayDimOffset", "UProperty", "ArrayDim", 56>>,
          <<"m_UProperty_ElementSizeOffset", "UProperty", "ElementSize", 60>>,
          <<"m_UProperty_PropertyFlagsOffset", "UProperty", "PropertyFlags", 64>>,
          <<"m_UProperty_OffsetOffset", "UProperty", "Offset_Internal", 76>>}
    ELSE {<<"m_ChildPropertiesOffset", "UStruct", "ChildProperties", 80>>,
          <<"m_SuperStructOffset", "UStruct", "SuperStruct", 64>>,
          <<"m_FField_ClassOffset", "FField", "ClassPrivate", 0>>,
          <<"m_FField_OwnerOffset", "FField", "Owner", 8>>,
          <<"m_FField_NextOffset", "FField", "Next", 32>>,
          <<"m_FField_NameOffset", "FField", "NamePrivate", 40>>,
          <<"m_FProperty_ArrayDimOffset", "FProperty", "ArrayDim", 56>>,
          <<"m_FProperty_ElementSizeOffset", "FProperty", "ElementSize", 60>>,
          <<"m_FProperty_PropertyFlagsOffset", "FProperty", "PropertyFlags", 64>>,
          <<"m_FProperty_OffsetOffset", "FProperty", "Offset_Internal", 76>>,
          <<"m_FFieldClass_NameOffset", "FFieldClass", "Name", 0>>}

\* F*PropertyIterator::Initialize(): the byte offsets the iterator keeps and
\* later adds to struct and field addresses.
IteratorOffsets(r, variant) ==
    [m \in {l[1] : l \in IteratorLookups(variant)} |->
        LET l == CHOOSE l \in IteratorLookups(variant) : l[1] = m
        IN IF GetOffset(r, l[2], l[3]) = 0 THEN l[4]
           ELSE GetOffset(r, l[2], l[3])]

Generations == {"Unknown", "UE4_16_19", "UE4_20_22", "UE4_23_24", "UE4_25",
                "UE4_26_27", "UE5_0", "UE5_1_Plus"}
Versions == [Generation : Generations, FortniteVersion : {180, 1500}]
LookupCategories == {"UObject", "UField", "UStruct", "UProperty", "FField",
                     "FProperty", "FFieldClass", "Controller", "Pawn",
                     "Mission"}
LookupNames == {"Class", "Next", "SuperStruct", "ChildProperties",
                "PropertyLink", "ArrayDim", "Offset_Internal", "NamePrivate",
                "Name", "QuickBars", "EditBuildingActor", "NoSuchField"}
\* FStubOffsetResolver::Get(): the instance is constructed.
OffsetResolverGet ==
    /\ probe.op = "None"
    /\ probe' = [op |-> "Get", resolver |-> NewOffsetResolver]
    /\ UNCHANGED <<resolverVars, coreVars, dispatchVars>>

OffsetResolverResolveOffsets ==
    /\ probe.op # "None"
    /\ \E Version \in Versions :
       \E r \in {ResolveOffsets(probe.resolver, Version)} :
         probe' = [op |-> "ResolveOffsets", resolver |-> r.resolver,
                   before |-> probe.resolver, Version |-> Version,
                   result |-> r.result]
    /\ UNCHANGED <<resolverVars, coreVars, dispatchVars>>

OffsetResolverGetOffset ==
    /\ probe.op # "None"
    /\ \E CategoryName \in LookupCategories, Name \in LookupNames :
         probe' = [op |-> "GetOffset", resolver |-> probe.resolver,
                   CategoryName |-> CategoryName, Name |-> Name,
                   result |-> GetOffset(probe.resolver, CategoryName, Name)]
    /\ UNCHANGED <<resolverVars, coreVars, dispatchVars>>

\* A property iterator is created and initialized against the resolver as it
\* is (GetPropertyIterator() does so on first use, at any time).
PropertyIteratorInitialize ==
    /\ probe.op # "None"
    /\ \E bUseFField \in BOOLEAN :
       \E iter \in {GetPropertyIteratorOp(NullTable,
                                          [bUseFField |-> bUseFField])} :
         probe' = [op |-> "Initialize", resolver |-> probe.resolver,
                   iter |-> iter,
                   offsets |-> IteratorOffsets(probe.resolver, iter.variant)]
    /\ UNCHANGED <<resolverVars, coreVars, dispatchVars>>

-----------------------------------------------------------------------------
(* PropertyIterator.cpp: ClassifyProperty of both iterators               *)
(*                                                                         *)
(* An EPropertyType value is its number: the enumerator's position in the  *)
(* declaration, Unknown = 0.                                               *)

EPropertyType ==
    << "Unknown", "ByteProperty", "Int8Property", "Int16Property",
       "IntProperty", "Int64Property", "UInt16Property", "UInt32Property",
       "UInt64Property", "FloatProperty", "DoubleProperty", "BoolProperty",
       "StrProperty", "NameProperty", "TextProperty", "ObjectProperty",
       "ClassProperty", "InterfaceProperty", "WeakObjectProperty",
       "LazyObjectProperty", "SoftObjectProperty", "SoftClassProperty",
       "StructProperty", "ArrayProperty", "MapProperty", "SetProperty",
       "DelegateProperty", "MulticastDelegateProperty",
       "MulticastInlineDelegateProperty",
       "MulticastSparseDelegateProperty", "EnumProperty",
       "FieldPathProperty" >>

EPropertyValue(Enumerator) ==
    (CHOOSE i \in 1..Len(EPropertyType) : EPropertyType[i] = Enumerator) - 1

\* FUPropertyIterator::ClassifyProperty(): the comparisons in source order.
UPropertyClassifyProperty(ClassName) ==
    CASE ClassName = "ByteProperty" -> EPropertyValue("ByteProperty")
      [] ClassName = "Int8Property" -> EPropertyValue("Int8Property")
      [] ClassName = "Int16Property" -> EPropertyValue("Int16Property")
      [] ClassName = "IntProperty" -> EPropertyValue("IntProperty")
      [] ClassName = "Int64Property" -> EPropertyValue("Int64Property")
      [] ClassName = "UInt16Property" -> EPropertyValue("UInt16Property")
      [] ClassName = "UInt32Property" -> EPropertyValue("UInt32Property")
      [] ClassName = "UInt64Property" -> EPropertyValue("UInt64Property")
      [] ClassName = "FloatProperty" -> EPropertyValue("FloatProperty")
      [] ClassName = "DoubleProperty" -> EPropertyValue("DoubleProperty")
      [] ClassName = "BoolProperty" -> EPropertyValue("BoolProperty")
      [] ClassName = "StrProperty" -> EPropertyValue("StrProperty")
      [] ClassName = "NameProperty" -> EPropertyValue("NameProperty")
      [] ClassName = "TextProperty" -> EPropertyValue("TextProperty")
      [] ClassName = "ObjectProperty" -> EPropertyValue("ObjectProperty")
      [] ClassName = "ClassProperty" -> EPropertyValue("ClassProperty")
      [] ClassName = "InterfaceProperty" -> EPropertyValue("InterfaceProperty")
      [] ClassName = "WeakObjectProperty" -> EPropertyValue("WeakObjectProperty")
      [] ClassName = "LazyObjectProperty" -> EPropertyValue("LazyObjectProperty")
      [] ClassName = "SoftObjectProperty" -> EPropertyValue("SoftObjectProperty")
      [] ClassName = "SoftClassProperty" -> EPropertyValue("SoftClassProperty")
      [] ClassName = "StructProperty" -> EPropertyValue("StructProperty")
      [] ClassName = "ArrayProperty" -> EPropertyValue("ArrayProperty")
      [] ClassName = "MapProperty" -> EPropertyValue("MapProperty")
      [] ClassName = "SetProperty" -> EPropertyValue("SetProperty")
      [] ClassName = "DelegateProperty" -> EPropertyValue("DelegateProperty")
      [] ClassName = "MulticastDelegateProperty" -> EPropertyValue("MulticastDelegateProperty")
      [] ClassName = "MulticastInlineDelegateProperty" -> EPropertyValue("MulticastInlineDelegateProperty")
      [] ClassName = "MulticastSparseDelegateProperty" -> EPropertyValue("MulticastSparseDelegateProperty")
      [] ClassName = "EnumProperty" -> EPropertyValue("EnumProperty")
      [] ClassName = "FieldPathProperty" -> EPropertyValue("FieldPathProperty")
      [] OTHER -> EPropertyValue("Unknown")

\* FFFieldPropertyIterator::ClassifyProperty(): its own copy of the chain.
FFieldClassifyPropertyMutNoFieldPath(ClassName) ==
    CASE ClassName = "ByteProperty" -> EPropertyValue("ByteProperty")
      [] ClassName = "Int8Property" -> EPropertyValue("Int8Property")
      [] ClassName = "Int16Property" -> EPropertyValue("Int16Property")
      [] ClassName = "IntProperty" -> EPropertyValue("IntProperty")
      [] ClassName = "Int64Property" -> EPropertyValue("Int64Property")
      [] ClassName = "UInt16Property" -> EPropertyValue("UInt16Property")
      [] ClassName = "UInt32Property" -> EPropertyValue("UInt32Property")
      [] ClassName = "UInt64Property" -> EPropertyValue("UInt64Property")
      [] ClassName = "FloatProperty" -> EPropertyValue("FloatProperty")
      [] ClassName = "DoubleProperty" -> EPropertyValue("DoubleProperty")
      [] ClassName = "BoolProperty" -> EPropertyValue("BoolProperty")
      [] ClassName = "StrProperty" -> EPropertyValue("StrProperty")
      [] ClassName = "NameProperty" -> EPropertyValue("NameProperty")
      [] ClassName = "TextProperty" -> EPropertyValue("TextProperty")
      [] ClassName = "ObjectProperty" -> EPropertyValue("ObjectProperty")
      [] ClassName = "ClassProperty" -> EPropertyValue("ClassProperty")
      [] ClassName = "InterfaceProperty" -> EPropertyValue("InterfaceProperty")
      [] ClassName = "WeakObjectProperty" -> EPropertyValue("WeakObjectProperty")
      [] ClassName = "LazyObjectProperty" -> EPropertyValue("LazyObjectProperty")
      [] ClassName = "SoftObjectProperty" -> EPropertyValue("SoftObjectProperty")
      [] ClassName = "SoftClassProperty" -> EPropertyValue("SoftClassProperty")
      [] ClassName = "StructProperty" -> EPropertyValue("StructProperty")
      [] ClassName = "ArrayProperty" -> EPropertyValue("ArrayProperty")
      [] ClassName = "MapProperty" -> EPropertyValue("MapProperty")
      [] ClassName = "SetProperty" -> EPropertyValue("SetProperty")
      [] ClassName = "DelegateProperty" -> EPropertyValue("DelegateProperty")
      [] ClassName = "MulticastDelegateProperty" -> EPropertyValue("MulticastDelegateProperty")
      [] ClassName = "MulticastInlineDelegateProperty" -> EPropertyValue("MulticastInlineDelegateProperty")
      [] ClassName = "MulticastSparseDelegateProperty" -> EPropertyValue("MulticastSparseDelegateProperty")
      [] ClassName = "EnumProperty" -> EPropertyValue("EnumProperty")
      [] OTHER -> EPropertyValue("Unknown")

FFieldClassifyProperty(ClassName) ==
    CASE ClassName = "ByteProperty" -> EPropertyValue("ByteProperty")
      [] ClassName = "Int8Property" -> EPropertyValue("Int8Property")
      [] ClassName = "Int16Property" -> EPropertyValue("Int16Property")
      [] ClassName = "IntProperty" -> EPropertyValue("IntProperty")
      [] ClassName = "Int64Property" -> EPropertyValue("Int64Property")
      [] ClassName = "UInt16Property" -> EPropertyValue("UInt16Property")
      [] ClassName = "UInt32Property" -> EPropertyValue("UInt32Property")
      [] ClassName = "UInt64Property" -> EPropertyValue("UInt64Property")
      [] ClassName = "FloatProperty" -> EPropertyValue("FloatProperty")
      [] ClassName = "DoubleProperty" -> EPropertyValue("DoubleProperty")
      [] ClassName = "BoolProperty" -> EPropertyValue("BoolProperty")
      [] ClassName = "StrProperty" -> EPropertyValue("StrProperty")
      [] ClassName = "NameProperty" -> EPropertyValue("NameProperty")
      [] ClassName = "TextProperty" -> EPropertyValue("TextProperty")
      [] ClassName = "ObjectProperty" -> EPropertyValue("ObjectProperty")
      [] ClassName = "ClassProperty" -> EPropertyValue("ClassProperty")
      [] ClassName = "InterfaceProperty" -> EPropertyValue("InterfaceProperty")
      [] ClassName = "WeakObjectProperty" -> EPropertyValue("WeakObjectProperty")
      [] ClassName = "LazyObjectProperty" -> EPropertyValue("LazyObjectProperty")
      [] ClassName = "SoftObjectProperty" -> EPropertyValue("SoftObjectProperty")
      [] ClassName = "SoftClassProperty" -> EPropertyValue("SoftClassProperty")
      [] ClassName = "StructProperty" -> EPropertyValue("StructProperty")
      [] ClassName = "ArrayProperty" -> EPropertyValue("ArrayProperty")
      [] ClassName = "MapProperty" -> EPropertyValue("MapProperty")
      [] ClassName = "SetProperty" -> EPropertyValue("SetProperty")
      [] ClassName = "DelegateProperty" -> EPropertyValue("DelegateProperty")
      [] ClassName = "MulticastDelegateProperty" -> EPropertyValue("MulticastDelegateProperty")
      [] ClassName = "MulticastInlineDelegateProperty" -> EPropertyValue("MulticastInlineDelegateProperty")
      [] ClassName = "MulticastSparseDelegateProperty" -> EPropertyValue("MulticastSparseDelegateProperty")
      [] ClassName = "EnumProperty" -> EPropertyValue("EnumProperty")
      [] ClassName = "FieldPathProperty" -> EPropertyValue("FieldPathProperty")
      [] OTHER -> EPropertyValue("Unknown")

\* Class names a field's class can carry: every name either chain compares
\* against, and names neither knows (the empty name read from a failed
\* lookup, a different case, a base class, a class of a later engine).
ClassNames ==
    {EPropertyType[i] : i \in 1..Len(EPropertyType)}
        \cup {"", "byteproperty", "Property", "NumericProperty",
              "OptionalProperty"}

NoClassified == [called |-> FALSE, ClassName |-> "", Type |-> 0]

\* ClassifyProperty(ClassName) of the UProperty iterator; the call and its
\* result are kept next to the last call of the other iterator.
UPropertyClassifyPropertyCall ==
    \E ClassName \in ClassNames :
        /\ probe' = [op |-> "ClassifyProperty",
                     UProperty |-> [called |-> TRUE, ClassName |-> ClassName,
                                    Type |-> UPropertyClassifyProperty(ClassName)],
                     FField |-> IF probe.op = "None" THEN NoClassified
                                ELSE probe.FField]
        /\ UNCHANGED <<resolverVars, coreVars, dispatchVars>>

\* ClassifyProperty(ClassName) of the FField iterator.
FFieldClassifyPropertyCall ==
    \E ClassName \in ClassNames :
        /\ probe' = [op |-> "ClassifyProperty",
                     UProperty |-> IF probe.op = "None" THEN NoClassified
                                   ELSE probe.UProperty,
                     FField |-> [called |-> TRUE, ClassName |-> ClassName,
                                 Type |-> FFieldClassifyProperty(ClassName)]]
        /\ UNCHANGED <<resolverVars, coreVars, dispatchVars>>

-----------------------------------------------------------------------------
(* FastArraySerializer.cpp: FFastArrayChangeDetector                      *)
(*                                                                         *)
(* What the serializer reports during one call is the call's input now:    *)
(* now.Items[i + 1] holds GetItemReplicationID(i) and                      *)
(* GetItemReplicationKey(i) for i < Num(), now.ArrayKey is                 *)
(* GetArrayReplicationKey().  Index i of the source is position i + 1.     *)
(* probe.before is the detector as the last DetectChanges() found it and  *)
(* probe.OutChanges the vector that call filled.                           *)

NewChangeDetector ==
    [Serializer |-> FALSE, LastArrayReplicationKey |-> 0,
     LastItemKeys |-> << >>, LastItemIDs |-> << >>, LastItemCount |-> 0]

Change(Type, Index, ReplicationID) ==
    [Type |-> Type, Index |-> Index, ReplicationID |-> ReplicationID]

\* First loop of DetectChanges(): one Removed per entry of m_LastItemIDs
\* that no current item carries.
DetectRemovals(d, now) ==
    LET Gone(i) == \A j \in 1..Len(now.Items) :
                       now.Items[j].ReplicationID # d.LastItemIDs[i]
        at == SelectSeq([i \in 1..Len(d.LastItemIDs) |-> i], Gone)
    IN  [k \in 1..Len(at) |-> Change("Removed", at[k] - 1, d.LastItemIDs[at[k]])]

\* The inner loop of the second loop: the first entry of m_LastItemIDs with
\* the current item's id decides, and the loop breaks there.
FirstWithID(d, CurrentID) ==
    LET at == {j \in 1..Len(d.LastItemIDs) : d.LastItemIDs[j] = CurrentID}
    IN  IF at = {} THEN 0 ELSE CHOOSE j \in at : \A k \in at : j <= k

IsModifiedMutNever(d, Item) == FALSE

IsModified(d, Item) ==
    LET j == FirstWithID(d, Item.ReplicationID)
    IN  /\ j # 0
        /\ j <= Len(d.LastItemKeys)
        /\ d.LastItemKeys[j] # Item.ReplicationKey

\* Second loop of DetectChanges(): Added or Modified per current item.
DetectAdditions(d, now) ==
    LET IsNew(i) == FirstWithID(d, now.Items[i].ReplicationID) = 0
        Reported(i) == IsNew(i) \/ IsModified(d, now.Items[i])
        at == SelectSeq([i \in 1..Len(now.Items) |-> i], Reported)
    IN  [k \in 1..Len(at) |->
            Change(IF IsNew(at[k]) THEN "Added" ELSE "Modified",
                   at[k] - 1, now.Items[at[k]].ReplicationID)]

\* Reset(), and the tail of DetectChanges(): the snapshot is replaced.
ChangeDetectorResetOp(d, now) ==
    IF ~d.Serializer THEN d
    ELSE [d EXCEPT !.LastArrayReplicationKey = now.ArrayKey,
                   !.LastItemCount = Len(now.Items),
                   !.LastItemIDs = [i \in 1..Len(now.Items) |->
                                       now.Items[i].ReplicationID],
                   !.LastItemKeys = [i \in 1..Len(now.Items) |->
                                        now.Items[i].ReplicationKey]]

\* Initialize(Serializer): bIsInitialized is Serializer->IsInitialized().
ChangeDetectorInitializeOp(d, bIsInitialized, now) ==
    IF ~bIsInitialized THEN [detector |-> d, result |-> "InvalidParameter"]
    ELSE [detector |-> ChangeDetectorResetOp([d EXCEPT !.Serializer = TRUE], now),
          result |-> "Success"]

\* DetectChanges(OutChanges): OutChanges is cleared first.
DetectChangesOp(d, now) ==
    IF ~d.Serializer THEN [detector |-> d, OutChanges |-> << >>, result |-> 0]
    ELSE LET Out == DetectRemovals(d, now) \o DetectAdditions(d, now)
         IN  [detector |-> ChangeDetectorResetOp(d, now),
              OutChanges |-> Out, result |-> Len(Out)]

ReplicatedItems == [ReplicationID : 1..2, ReplicationKey : 0..1]

ItemsOfIDs(ids) ==
    [i \in 1..Len(ids) |-> [ReplicationID |-> ids[i], ReplicationKey |-> 0]]

\* Arrays of at most two items, ids repeated or not, and the two arrays
\* with ids 1,2,3 and 2,3,4.
ItemArrays ==
    {<< >>} \cup [1..1 -> ReplicatedItems] \cup [1..2 -> ReplicatedItems]
        \cup {ItemsOfIDs(<<1, 2, 3>>), ItemsOfIDs(<<2, 3, 4>>)}

SerializerViews == [Items : ItemArrays, ArrayKey : 0..1]

FFastArrayChangeDetectorCreate ==
    /\ probe.op = "None"
    /\ probe' = [op |-> "FFastArrayChangeDetector",
                 detector |-> NewChangeDetector, before |-> NewChangeDetector,
                 OutChanges |-> << >>, result |-> "None"]
    /\ UNCHANGED <<resolverVars, coreVars, dispatchVars>>

ChangeDetectorInitialize ==
    /\ probe.op # "None"
    /\ \E bIsInitialized \in BOOLEAN, now \in SerializerViews :
         \E r \in {ChangeDetectorInitializeOp(probe.detector, bIsInitialized, now)} :
            probe' = [probe EXCEPT !.op = "Initialize",
                                   !.before = NewChangeDetector,
                                   !.detector = r.detector,
                                   !.OutChanges = << >>,
                                   !.result = r.result]
    /\ UNCHANGED <<resolverVars, coreVars, dispatchVars>>

ChangeDetectorDetectChanges ==
    /\ probe.op # "None"
    /\ \E now \in SerializerViews :
         \E r \in {DetectChangesOp(probe.detector, now)} :
            probe' = [probe EXCEPT !.op = "DetectChanges",
                                   !.before = probe.detector,
                                   !.detector = r.detector,
                                   !.OutChanges = r.OutChanges,
                                   !.result = r.result]
    /\ UNCHANGED <<resolverVars, coreVars, dispatchVars>>

ChangeDetectorReset ==
    /\ probe.op # "None"
    /\ \E now \in SerializerViews :
         probe' = [probe EXCEPT !.op = "Reset",
                                !.before = NewChangeDetector,
                                !.detector = ChangeDetectorResetOp(probe.detector, now),
                                !.OutChanges = << >>,
                                !.result = "None"]
    /\ UNCHANGED <<resolverVars, coreVars, dispatchVars>>

-----------------------------------------------------------------------------
(* ProcessEventDispatcher.cpp: GetFunctionInfo and ParseParameters        *)
(*                                                                         *)
(* A callable is one of the structs of the host process; m_FunctionCache   *)
(* is a function from the callables resolved so far to their lists.        *)

\* ForEachProperty(Struct, Callback, bIncludeSuper) run to its return with a
\* callback that always continues.
RECURSIVE WalkToEnd(_, _)
WalkToEnd(env, walk) ==
    IF ~walk.active \/ walk.overflow THEN walk
    ELSE WalkToEnd(env, WalkStep(env, walk))

\* The lambda of GetFunctionInfo: Params collects the fields with CPF_Parm.
CollectParams(yielded) ==
    SelectSeq(yielded, LAMBDA Info : "CPF_Parm" \in Info.PropertyFlags)

\* std::sort leaving Params as collected.
SortedByOffsetMutUnsorted(v) == {v}

\* The orders std::sort may leave v in under the comparator
\* A.Offset < B.Offset.
SortedByOffset(v) ==
    LET n == Len(v)
        perms == { p \in [1..n -> 1..n] : \A i, j \in 1..n : i # j => p[i] # p[j] }
    IN { [i \in 1..n |-> v[p[i]]] : p \in { q \in perms :
            \A i \in 1..n, j \in 1..n :
               i < j => v[q[i]].Offset <= v[q[j]].Offset } }

\* GetFunctionInfo(Function, OutParams): the outcomes [ok, cache, OutParams].
GetFunctionInfo(cache, iter, env, Function) ==
    IF Function = 0
    THEN {[ok |-> FALSE, cache |-> cache, OutParams |-> << >>]}
    ELSE IF Function \in DOMAIN cache
    THEN {[ok |-> TRUE, cache |-> cache, OutParams |-> cache[Function]]}
    ELSE {[ok |-> TRUE,
           cache |-> [F \in DOMAIN cache \cup {Function} |->
                         IF F = Function THEN Params ELSE cache[F]],
           OutParams |-> Params] :
          Params \in SortedByOffset(CollectParams(
              WalkToEnd(env, WalkBegin(iter, Function, FALSE, FALSE, "")).yielded))}

\* The loop of ParseParameters over ParamInfos: ReadParameterValue fills one
\* FParsedParameter per field with CPF_Parm (it fails on null Parameters
\* only); the values read are not kept.
ParsedParams(ParamInfos) ==
    [k \in 1..Len(CollectParams(ParamInfos)) |->
        [Name |-> CollectParams(ParamInfos)[k].Name,
         Offset |-> CollectParams(ParamInfos)[k].Offset,
         Flags |-> CollectParams(ParamInfos)[k].PropertyFlags]]

\* The dispatcher with the property iterator it uses, in a process whose
\* types are env.
ParamsGetPropertyIterator ==
    /\ probe.op = "None"
    /\ \E bUseFField \in BOOLEAN, env \in TypeEnvs :
         probe' = [op |-> "GetPropertyIterator",
                   iter |-> GetPropertyIteratorOp(NullTable,
                                                  [bUseFField |-> bUseFField]),
                   env |-> env, cache |-> << >>, Function |-> 0, ok |-> FALSE,
                   OutParams |-> << >>, Params |-> << >>,
                   bHasReturnValue |-> FALSE]
    /\ UNCHANGED <<resolverVars, coreVars, dispatchVars>>

GetFunctionInfoCall ==
    /\ probe.op # "None"
    /\ \E Function \in {0} \cup Structs :
       \E r \in GetFunctionInfo(probe.cache, probe.iter, probe.env, Function) :
         probe' = [probe EXCEPT !.op = "GetFunctionInfo", !.cache = r.cache,
                                !.Function = Function, !.ok = r.ok,
                                !.OutParams = r.OutParams, !.Params = << >>,
                                !.bHasReturnValue = FALSE]
    /\ UNCHANGED <<resolverVars, coreVars, dispatchVars>>

\* ParseParameters(Function, Parameters, OutContext) on a fresh context.
ParseParametersCall ==
    /\ probe.op # "None"
    /\ \E Function \in {0} \cup Structs, bParameters \in BOOLEAN :
         IF Function = 0 \/ ~bParameters
         THEN probe' = [probe EXCEPT !.op = "ParseParameters",
                                     !.Function = Function, !.ok = FALSE,
                                     !.OutParams = << >>, !.Params = << >>,
                                     !.bHasReturnValue = FALSE]
         ELSE \E r \in GetFunctionInfo(probe.cache, probe.iter, probe.env,
                                        Function) :
                probe' = [probe EXCEPT
                            !.op = "ParseParameters", !.cache = r.cache,
                            !.Function = Function, !.ok = r.ok,
                            !.OutParams = r.OutParams,
                            !.Params = ParsedParams(r.OutParams),
                            !.bHasReturnValue =
                                \E k \in 1..Len(r.OutParams) :
                                   "CPF_ReturnParm" \in r.OutParams[k].PropertyFlags]
    /\ UNCHANGED <<resolverVars, coreVars, dispatchVars>>

-----------------------------------------------------------------------------
(* Memory.cpp: MaskCompare and FindPattern                                 *)
(*                                                                         *)
(* The range [Start, Start + Size) is the sequence Data of its bytes,      *)
(* Data[k] the byte at Start + k - 1.  A pattern is a sequence of chars    *)
(* (-128..127) and a mask a sequence of "x" and "?"; bNull says that the   *)
(* two pointers are null.                                                  *)

\* static_cast<uint8>(char)
ToUint8(c) == c % 256

\* MaskCompare(Data + i, Pattern, Mask): the loop runs to the end of Mask.
MaskCompare(Data, i, Pattern, Mask) ==
    \A k \in 1..Len(Mask) :
       Mask[k] = "x" => Data[i + k] = ToUint8(Pattern[k])

\* size_t SearchSize = Size - MaskLength, computed after Size < MaskLength
\* has returned.
SearchSize(Size, MaskLength) == Size - MaskLength

\* FindPattern(Start, Size, Pattern, Mask): the first i < SearchSize at which
\* MaskCompare succeeds.
FindPattern(Start, Data, bNull, Pattern, Mask) ==
    IF bNull THEN [bFound |-> FALSE, Address |-> 0]
    ELSE IF Len(Data) < Len(Mask) THEN [bFound |-> FALSE, Address |-> 0]
    ELSE LET at == {i \in 0..(SearchSize(Len(Data), Len(Mask)) - 1) :
                       MaskCompare(Data, i, Pattern, Mask)}
         IN  IF at = {} THEN [bFound |-> FALSE, Address |-> 0]
             ELSE [bFound |-> TRUE,
                   Address |-> Start + (CHOOSE i \in at : \A j \in at : i <= j)]

\* Ranges of up to three bytes, and patterns of one or two chars with every
\* mask, the char -1 being the byte 255.
ScanRanges == UNION {[1..n -> {72, 255}] : n \in 0..3}
ScanPatterns ==
    UNION {[bNull : {FALSE}, Pattern : [1..n -> {72, -1}],
            Mask : [1..n -> {"x", "?"}]] : n \in 1..2}
        \cup {[bNull |-> TRUE, Pattern |-> << >>, Mask |-> << >>]}

FindPatternCall ==
    /\ \E Start \in {HeaderAddress, ChunkTableBase}, Data \in ScanRanges,
          p \in ScanPatterns :
         probe' = [op |-> "FindPattern", Start |-> Start, Data |-> Data,
                   bNull |-> p.bNull, Pattern |-> p.Pattern, Mask |-> p.Mask,
                   Result |-> FindPattern(Start, Data, p.bNull, p.Pattern,
                                          p.Mask)]
    /\ UNCHANGED <<resolverVars, coreVars, dispatchVars>>

-----------------------------------------------------------------------------
(* FastArraySerializer.cpp: FLegacyFastArraySerializer and                 *)
(* FNewFastArraySerializer                                                 *)
(*                                                                         *)
(* mem is the native array in the host process: mem.ArrayReplicationKey    *)
(* and mem.Items, each item with its ReplicationID, ReplicationKey and     *)
(* MostRecentArrayReplicationKey.  Index i of the source is position       *)
(* i + 1.  Every read and write of the array succeeds.  probe.notified is  *)
(* what a registered change callback received during the last call.        *)

MaxReplicationKey == 2

\* CreateFastArraySerializer(): the variant follows
\* bUseNewFastArraySerializer.
NewFastArraySerializer(bUseNewFastArraySerializer) ==
    [variant |-> IF bUseNewFastArraySerializer THEN "New" ELSE "Legacy",
     m_bInitialized |-> FALSE]

\* Initialize(FastArrayPtr, ItemSize, ItemsOffset)
FastArraySerializerInitializeOp(s, bFastArrayPtr) ==
    IF ~bFastArrayPtr THEN [result |-> "InvalidParameter", serializer |-> s]
    ELSE [result |-> "Success",
          serializer |-> [s EXCEPT !.m_bInitialized = TRUE]]

\* Num()
FastArrayNum(s, mem) == IF ~s.m_bInitialized THEN 0 ELSE Len(mem.Items)

\* GetItem(Index) # nullptr
HasItem(s, mem, Index) ==
    s.m_bInitialized /\ Index >= 0 /\ Index < FastArrayNum(s, mem)

\* GetArrayReplicationKey() of the new format.
GetArrayReplicationKey(s, mem) ==
    IF ~s.m_bInitialized THEN 0 ELSE mem.ArrayReplicationKey

\* IsItemDirty(Index)
IsItemDirty(s, mem, Index) ==
    IF s.variant = "Legacy" THEN TRUE
    ELSE IF ~HasItem(s, mem, Index) THEN FALSE
    ELSE mem.Items[Index + 1].MostRecentArrayReplicationKey
            # GetArrayReplicationKey(s, mem)

\* MarkItemDirty(Index): the array afterwards and the changes notified.
MarkItemDirty(s, mem, Index) ==
    IF ~HasItem(s, mem, Index) THEN [mem |-> mem, notified |-> << >>]
    ELSE IF s.variant = "Legacy"
    THEN [mem |-> [mem EXCEPT !.Items[Index + 1].ReplicationKey = @ + 1],
          notified |-> << >>]
    ELSE [mem |-> [mem EXCEPT
                     !.Items[Index + 1].ReplicationKey = @ + 1,
                     !.Items[Index + 1].MostRecentArrayReplicationKey =
                         GetArrayReplicationKey(s, mem)],
          notified |-> <<Change("Modified", Index,
                                mem.Items[Index + 1].ReplicationID)>>]

\* IncrementArrayReplicationKey()
IncrementArrayReplicationKey(s, mem) ==
    IF s.variant = "Legacy" \/ ~s.m_bInitialized THEN mem
    ELSE [mem EXCEPT !.ArrayReplicationKey = @ + 1]

\* The loop of MarkAllDirty() from index i on.
RECURSIVE MarkFrom(_, _, _)
MarkFrom(s, mem, i) ==
    IF i >= FastArrayNum(s, mem) THEN [mem |-> mem, notified |-> << >>]
    ELSE LET one == MarkItemDirty(s, mem, i)
             rest == MarkFrom(s, one.mem, i + 1)
         IN  [mem |-> rest.mem, notified |-> one.notified \o rest.notified]

\* MarkAllDirty(): the new format increments the array key first.
MarkAllDirty(s, mem) ==
    MarkFrom(s, IF s.variant = "New" THEN IncrementArrayReplicationKey(s, mem)
                ELSE mem, 0)

\* Native arrays of up to two items as the game may have left them.
NativeArrays ==
    [ArrayReplicationKey : 0..1,
     Items : {<< >>,
              <<[ReplicationID |-> 1, ReplicationKey |-> 0,
                 MostRecentArrayReplicationKey |-> 0]>>,
              <<[ReplicationID |-> 1, ReplicationKey |-> 1,
                 MostRecentArrayReplicationKey |-> 1],
                [ReplicationID |-> 2, ReplicationKey |-> 0,
                 MostRecentArrayReplicationKey |-> 0]>>}]

NoFastArrayCall == [op |-> "None", Index |-> -1]

FastArrayCreate ==
    /\ probe.op = "None"
    /\ \E bUseNewFastArraySerializer \in BOOLEAN, mem \in NativeArrays :
         probe' = [op |-> "CreateFastArraySerializer",
                   serializer |-> NewFastArraySerializer(bUseNewFastArraySerializer),
                   mem |-> mem, Index |-> -1, last |-> NoFastArrayCall,
                   notified |-> << >>, result |-> "None"]
    /\ UNCHANGED <<resolverVars, coreVars, dispatchVars>>

FastArrayInitialize ==
    /\ probe.op # "None"
    /\ \E bFastArrayPtr \in BOOLEAN :
       \E r \in {FastArraySerializerInitializeOp(probe.serializer, bFastArrayPtr)} :
         probe' = [probe EXCEPT !.op = "Initialize",
                                !.serializer = r.serializer, !.Index = -1,
                                !.last = [op |-> probe.op, Index |-> probe.Index],
                                !.notified = << >>, !.result = r.result]
    /\ UNCHANGED <<resolverVars, coreVars, dispatchVars>>

FastArrayMarkItemDirty ==
    /\ probe.op # "None"
    /\ \E Index \in -1..2 :
         /\ HasItem(probe.serializer, probe.mem, Index) =>
               probe.mem.Items[Index + 1].ReplicationKey < MaxReplicationKey
         /\ \E r \in {MarkItemDirty(probe.serializer, probe.mem, Index)} :
              probe' = [probe EXCEPT !.op = "MarkItemDirty", !.mem = r.mem,
                                     !.Index = Index,
                                     !.last = [op |-> probe.op, Index |-> probe.Index],
                                     !.notified = r.notified, !.result = "None"]
    /\ UNCHANGED <<resolverVars, coreVars, dispatchVars>>

FastArrayMarkAllDirty ==
    /\ probe.op # "None"
    /\ probe.mem.ArrayReplicationKey < MaxReplicationKey
    /\ \A k \in 1..Len(probe.mem.Items) :
          probe.mem.Items[k].ReplicationKey < MaxReplicationKey
    /\ \E r \in {MarkAllDirty(probe.serializer, probe.mem)} :
         probe' = [probe EXCEPT !.op = "MarkAllDirty", !.mem = r.mem,
                                !.Index = -1,
                                !.last = [op |-> probe.op, Index |-> probe.Index],
                                !.notified = r.notified, !.result = "None"]
    /\ UNCHANGED <<resolverVars, coreVars, dispatchVars>>

FastArrayIsItemDirty ==
    /\ probe.op # "None"
    /\ \E Index \in -1..2 :
         probe' = [probe EXCEPT
                     !.op = "IsItemDirty", !.Index = Index,
                     !.last = [op |-> probe.op, Index |-> probe.Index],
                     !.notified = << >>,
                     !.result = IsItemDirty(probe.serializer, probe.mem, Index)]
    /\ UNCHANGED <<resolverVars, coreVars, dispatchVars>>

-----------------------------------------------------------------------------
(* UObjectWrapper.cpp: FNameWrapper and the file's own name pool           *)
(*                                                                         *)
(* g_pNamePool of UObjectWrapper.cpp is kept in probe.g_pNamePool; it is   *)
(* null until the first GetNamePoolInstance().  Text is what               *)
(* GetNameString() of an initialized pool returns for the index.           *)

\* GetNamePoolInstance(): creates the file's pool on first use and never
\* initializes it.
GetNamePoolInstance(g_pNamePool, info) ==
    IF g_pNamePool.variant = "null" THEN CreateNamePool(info) ELSE g_pNamePool

\* FNameWrapper::GetName() with Pool the pointer GetNamePoolInstance() gave.
FNameWrapperGetName(m_ComparisonIndex, Pool, Text) ==
    IF m_ComparisonIndex <= 0 THEN "None"
    ELSE IF Pool.variant = "null" \/ ~Pool.bInitialized THEN "<uninitialized>"
    ELSE Text

ComparisonIndices == {-1, 0, 1, 7}
NameTexts == {"Pawn", "Health"}

\* A consumer calls FNameWrapper::GetName() at any time.
FNameWrapperGetNameCall ==
    /\ \E m_ComparisonIndex \in ComparisonIndices, Text \in NameTexts :
       \E Pool \in {IF m_ComparisonIndex <= 0
                    THEN IF probe.op = "None" THEN NullTable
                         ELSE probe.g_pNamePool
                    ELSE GetNamePoolInstance(
                           IF probe.op = "None" THEN NullTable
                           ELSE probe.g_pNamePool, m_VersionInfo)} :
         probe' = [op |-> "GetName", g_pNamePool |-> Pool,
                   m_ComparisonIndex |-> m_ComparisonIndex,
                   m_Status |-> m_Status, m_pNamePool |-> m_pNamePool,
                   Text |-> Text,
                   result |-> FNameWrapperGetName(m_ComparisonIndex, Pool,
                                                  Text)]
    /\ UNCHANGED <<resolverVars, coreVars, dispatchVars>>

-----------------------------------------------------------------------------
(* NamePool.cpp: FNamePoolImpl::GetNameString on two threads               *)
(*                                                                         *)
(* AnsiBuffer and WideBuffer are the function's static arrays, one pair    *)
(* for the process.  A thread runs GetNameString() one statement at a      *)
(* time: the character loop of GetName() one iteration per step, then the  *)
(* terminator and the pointer into the static array, then ToString().      *)
(* entry is the entry the thread's index names, all of it readable.        *)

Threads == {1, 2}

NameEntries == { [text |-> Str_NamePawn, wide |-> FALSE],
                 [text |-> Str_NameAc, wide |-> FALSE],
                 [text |-> Str_NameAc, wide |-> TRUE] }

IdleThread == [pc |-> "idle", entry |-> [text |-> << >>, wide |-> FALSE],
               Name |-> NewResolvedName, i |-> 0, result |-> << >>]

NoScratch == [op |-> "GetNameString", AnsiBuffer |-> ZeroBuffer,
              WideBuffer |-> ZeroBuffer,
              threads |-> [t \in Threads |-> IdleThread]]

Scratch == IF probe.op = "None" THEN NoScratch ELSE probe

\* GetNameString() up to the character loop: a fresh FResolvedName, the
\* header read (lines 237-245).
ThreadBegin(entry) ==
    [pc |-> "loop", entry |-> entry,
     Name |-> [NewResolvedName EXCEPT !.bIsWide = entry.wide,
                                      !.Length = Len(entry.text)],
     i |-> 0, result |-> << >>]

\* One iteration of the character loop (lines 254-262, 266-274).
ThreadLoopStep(s, t) ==
    LET th == s.threads[t]
        c == th.entry.text[th.i + 1]
    IN [s EXCEPT !.AnsiBuffer = IF th.entry.wide THEN @
                                ELSE BufferPut(@, th.i, c),
                 !.WideBuffer = IF th.entry.wide THEN BufferPut(@, th.i, c)
                                ELSE @,
                 !.threads[t].i = th.i + 1]

\* Buffer[Length] = 0 and OutName's pointer to the static array (lines
\* 263-264, 275-276).
ThreadTerminate(s, t) ==
    LET th == s.threads[t]
    IN [s EXCEPT !.AnsiBuffer = IF th.entry.wide THEN @
                                ELSE BufferPut(@, th.Name.Length, 0),
                 !.WideBuffer = IF th.entry.wide
                                THEN BufferPut(@, th.Name.Length, 0) ELSE @,
                 !.threads[t].Name.AnsiName = ~th.entry.wide,
                 !.threads[t].Name.WideName = th.entry.wide,
                 !.threads[t].pc = "ToString"]

\* return Name.ToString(): the string is read out of the static array.
ThreadToString(s, t) ==
    [s EXCEPT !.threads[t].result =
                  ResolvedToString(s.threads[t].Name, s.AnsiBuffer,
                                   s.WideBuffer),
              !.threads[t].pc = "done"]

\* A thread calls GetNameString() for an entry no running call resolves.
ThreadGetNameString ==
    /\ \E t \in Threads, entry \in NameEntries :
         /\ Scratch.threads[t].pc = "idle"
         /\ \A u \in Threads \ {t} : Scratch.threads[u].entry # entry
         /\ probe' = [Scratch EXCEPT !.threads[t] = ThreadBegin(entry)]
    /\ UNCHANGED <<resolverVars, coreVars, dispatchVars>>

\* The thread runs one iteration of the loop, or leaves it.
ThreadStepLoop ==
    /\ probe.op = "GetNameString"
    /\ \E t \in Threads :
         /\ probe.threads[t].pc = "loop"
         /\ probe' = IF probe.threads[t].i < probe.threads[t].Name.Length
                     THEN ThreadLoopStep(probe, t)
                     ELSE ThreadTerminate(probe, t)
    /\ UNCHANGED <<resolverVars, coreVars, dispatchVars>>

\* The thread builds the returned string.
ThreadReturn ==
    /\ probe.op = "GetNameString"
    /\ \E t \in Threads :
         /\ probe.threads[t].pc = "ToString"
         /\ probe' = ThreadToString(probe, t)
    /\ UNCHANGED <<resolverVars, coreVars, dispatchVars>>

-----------------------------------------------------------------------------
(* MissionManager.cpp and MissionObjective.cpp                             *)
(*                                                                         *)
(* The manager is kept in probe.mission.  m_Objectives is the sequence of  *)
(* the objectives, each with its definition's Type, TargetCount and        *)
(* bIsPrimary and its own m_State and m_CurrentProgress.  No callback is   *)
(* registered and no wave is started.  probe.kills counts the              *)
(* "EnemyKilled" events delivered to the active mission since its          *)
(* StartMission().                                                         *)

MaxKills == 5

\* FMissionObjective::FMissionObjective(Definition)
CreateObjective(Type, TargetCount) ==
    [Type |-> Type, TargetCount |-> TargetCount, bIsPrimary |-> TRUE,
     m_State |-> "Inactive", m_CurrentProgress |-> 0]

\* CreateDefaultObjectives(): one primary objective by mission type.
CreateDefaultObjectives(Type) ==
    IF Type = "EncampmentDestruction" THEN <<CreateObjective("Kill", 5)>>
    ELSE IF Type = "RadarGridConstruction" THEN <<CreateObjective("Build", 5)>>
    ELSE <<CreateObjective("Kill", 50)>>

\* FMissionManager::FMissionManager() and Initialize()
NewMissionManager ==
    [m_State |-> "None", Type |-> "Unknown", m_Objectives |-> << >>,
     m_Result |-> [bSuccess |-> FALSE, ObjectivesCompleted |-> 0,
                   TotalObjectives |-> 0]]

\* FMissionObjective::Complete()
Complete(o) ==
    IF o.m_State \notin {"Completed", "Failed"}
    THEN [o EXCEPT !.m_State = "Completed"] ELSE o

\* FMissionObjective::SetProgress(Progress)
SetProgress(o, Progress) ==
    LET clamped == IF Progress < 0 THEN 0 ELSE Progress
        stored == [o EXCEPT !.m_CurrentProgress = clamped]
    IN IF clamped # o.m_CurrentProgress
          /\ o.TargetCount > 0 /\ clamped >= o.TargetCount
       THEN Complete(stored) ELSE stored

\* FMissionObjective::AddProgress(Amount)
AddProgress(o, Amount) == SetProgress(o, o.m_CurrentProgress + Amount)

\* OnEvent(EventName, Params) of FKillObjective and of FBuildObjective.
ObjectiveOnEvent(o, EventName) ==
    IF o.m_State # "Active" THEN o
    ELSE IF o.Type = "Kill" /\ EventName = "EnemyKilled" THEN AddProgress(o, 1)
    ELSE IF o.Type = "Build" /\ EventName = "BuildingPlaced"
    THEN AddProgress(o, 1)
    ELSE o

\* OnMissionEvent(EventName, Params): every objective's OnEvent.
OnMissionEvent(m, EventName) ==
    [m EXCEPT !.m_Objectives =
        [i \in 1..Len(m.m_Objectives) |->
            ObjectiveOnEvent(m.m_Objectives[i], EventName)]]

IsActive(m) == m.m_State \in {"Active", "DefensePhase"}

\* StartMission(Config)
StartMission(m, Type) ==
    IF m.m_State \notin {"None", "Complete", "Failed"}
    THEN [result |-> "InvalidState", mission |-> m]
    ELSE [result |-> "Success",
          mission |-> [m EXCEPT !.Type = Type,
                                !.m_Objectives = CreateDefaultObjectives(Type),
                                !.m_State = "Active"]]

\* CalculateResult()
CalculateResult(m) ==
    [bSuccess |->
        \A i \in 1..Len(m.m_Objectives) :
           ~(m.m_Objectives[i].m_State = "Failed"
               /\ m.m_Objectives[i].bIsPrimary),
     ObjectivesCompleted |->
        Cardinality({i \in 1..Len(m.m_Objectives) :
                        m.m_Objectives[i].m_State = "Completed"}),
     TotalObjectives |-> Len(m.m_Objectives)]

\* EndMission(bSuccess)
EndMission(m, bSuccess) ==
    IF ~IsActive(m) /\ m.m_State # "Loading" THEN m
    ELSE OnMissionEvent(
           [m EXCEPT !.m_Result = [CalculateResult(m) EXCEPT
                                      !.bSuccess = bSuccess],
                     !.m_State = IF bSuccess THEN "Complete" ELSE "Failed"],
           IF bSuccess THEN "MissionComplete" ELSE "MissionFailed")

\* CheckObjectivesComplete()
CheckObjectivesComplete(m) ==
    LET primary == {i \in 1..Len(m.m_Objectives) :
                       m.m_Objectives[i].bIsPrimary}
    IN IF \E i \in primary : m.m_Objectives[i].m_State = "Failed"
       THEN EndMission(m, FALSE)
       ELSE IF \A i \in primary : m.m_Objectives[i].m_State = "Completed"
       THEN EndMission(m, TRUE)
       ELSE m

\* Update(): the objectives' Update() (the base one, which does nothing, for
\* kill and build objectives), then CheckObjectivesComplete().
MissionUpdate(m) == IF ~IsActive(m) THEN m ELSE CheckObjectivesComplete(m)

\* AbortMission()
AbortMission(m) ==
    OnMissionEvent([m EXCEPT !.m_Result = [bSuccess |-> FALSE,
                                           ObjectivesCompleted |-> 0,
                                           TotalObjectives |-> 0],
                             !.m_State = "None"], "MissionAborted")

\* UpdateObjectiveProgress(Index, Progress)
UpdateObjectiveProgress(m, Index, Progress) ==
    IF Index >= 0 /\ Index < Len(m.m_Objectives)
    THEN [m EXCEPT !.m_Objectives[Index + 1] = SetProgress(@, Progress)]
    ELSE m

MissionTypes == {"Unknown", "EncampmentDestruction", "RadarGridConstruction"}
MissionEvents == {"EnemyKilled", "BuildingPlaced", "SurvivorRescued"}

Mission == IF probe.op = "None" THEN NewMissionManager ELSE probe.mission
Kills == IF probe.op = "None" THEN 0 ELSE probe.kills

MissionStartMission ==
    /\ \E Type \in MissionTypes :
       \E r \in {StartMission(Mission, Type)} :
         probe' = [op |-> "StartMission", mission |-> r.mission,
                   result |-> r.result,
                   kills |-> IF r.result = "Success" THEN 0 ELSE Kills]
    /\ UNCHANGED <<resolverVars, coreVars, dispatchVars>>

MissionOnMissionEvent ==
    /\ probe.op # "None"
    /\ \E EventName \in MissionEvents :
         /\ EventName = "EnemyKilled" /\ IsActive(probe.mission)
              => probe.kills < MaxKills
         /\ probe' = [op |-> "OnMissionEvent",
                      mission |-> OnMissionEvent(probe.mission, EventName),
                      result |-> EventName,
                      kills |-> IF EventName = "EnemyKilled"
                                   /\ IsActive(probe.mission)
                                THEN probe.kills + 1 ELSE probe.kills]
    /\ UNCHANGED <<resolverVars, coreVars, dispatchVars>>

MissionUpdateCall ==
    /\ probe.op # "None"
    /\ probe' = [op |-> "Update", mission |-> MissionUpdate(probe.mission),
                 result |-> "void", kills |-> probe.kills]
    /\ UNCHANGED <<resolverVars, coreVars, dispatchVars>>

MissionAbortMission ==
    /\ probe.op # "None"
    /\ probe' = [op |-> "AbortMission", mission |-> AbortMission(probe.mission),
                 result |-> "void", kills |-> 0]
    /\ UNCHANGED <<resolverVars, coreVars, dispatchVars>>

MissionUpdateObjectiveProgress ==
    /\ probe.op # "None"
    /\ \E Index \in {0, 1}, Progress \in {-1, 3, 5} :
         probe' = [op |-> "UpdateObjectiveProgress",
                   mission |-> UpdateObjectiveProgress(probe.mission, Index,
                                                       Progress),
                   result |-> "void", kills |-> probe.kills]
    /\ UNCHANGED <<resolverVars, coreVars, dispatchVars>>

-----------------------------------------------------------------------------
(* InventoryManager.cpp: FInventoryManager                                 *)
(*                                                                         *)
(* The item id "item_N" is the number N and the empty id is 0.  m_Items    *)
(* and m_SlotToItem are functions on the keys they hold.  A loop over      *)
(* m_Items visits the items in the order of the hash table, which the      *)
(* program does not fix: where the first match ends the loop, any match    *)
(* can be the one taken, and the operator gives every outcome.  No change  *)
(* callback is registered.  probe.changed tells whether the latest call    *)
(* left the inventory different from what it found.                        *)

m_MaxSlots == 2
MaxItemIds == m_MaxSlots + 1

\* FInventoryManager::FInventoryManager()
NewInventoryManager ==
    [m_Items |-> << >>, m_SlotToItem |-> << >>, m_EquippedWeaponId |-> 0,
     m_ItemIdCounter |-> 0]

Without(f, k) == [x \in DOMAIN f \ {k} |-> f[x]]
With(f, k, v) == [x \in DOMAIN f \cup {k} |-> IF x = k THEN v ELSE f[x]]

\* FindFreeSlot(): the lowest slot with no entry in m_SlotToItem, -1 if
\* every slot below m_MaxSlots has one.
FindFreeSlot(inv) ==
    IF \A i \in 0..(m_MaxSlots - 1) : i \in DOMAIN inv.m_SlotToItem THEN -1
    ELSE CHOOSE i \in 0..(m_MaxSlots - 1) :
           /\ i \notin DOMAIN inv.m_SlotToItem
           /\ \A j \in 0..(i - 1) : j \in DOMAIN inv.m_SlotToItem

\* The tail of AddItem(Item) (lines 156-183): a new item in a free slot.
AddItemInFreeSlot(inv, Item) ==
    IF FindFreeSlot(inv) < 0 THEN [result |-> "InventoryFull", inv |-> inv]
    ELSE [result |-> "Success",
          inv |-> [inv EXCEPT
                     !.m_ItemIdCounter = @ + 1,
                     !.m_Items =
                         With(@, inv.m_ItemIdCounter + 1,
                              [Item EXCEPT !.SlotIndex = FindFreeSlot(inv)]),
                     !.m_SlotToItem =
                         With(@, FindFreeSlot(inv), inv.m_ItemIdCounter + 1)]]

Min(a, b) == IF a < b THEN a ELSE b

\* AddItem(Item): every outcome of the call.
RECURSIVE AddItem(_, _)
AddItem(inv, Item) ==
    LET stacks == {id \in DOMAIN inv.m_Items :
                     /\ inv.m_Items[id].TemplateId = Item.TemplateId
                     /\ inv.m_Items[id].Count < inv.m_Items[id].MaxStackSize}
        ToAdd(id) == Min(Item.Count,
                         inv.m_Items[id].MaxStackSize - inv.m_Items[id].Count)
        Stacked(id) == [inv EXCEPT !.m_Items[id].Count = @ + ToAdd(id)]
    IN IF stacks = {} THEN {AddItemInFreeSlot(inv, Item)}
       ELSE UNION {IF ToAdd(id) >= Item.Count
                   THEN {[result |-> "Success", inv |-> Stacked(id)]}
                   ELSE AddItem(Stacked(id),
                                [Item EXCEPT !.Count = @ - ToAdd(id)]) :
                   id \in stacks}

\* RemoveItem(ItemId, Count)
RemoveItem(inv, ItemId, Count) ==
    IF ItemId \notin DOMAIN inv.m_Items
    THEN [result |-> "ItemNotFound", inv |-> inv]
    ELSE IF Count >= inv.m_Items[ItemId].Count
    THEN [result |-> "Success",
          inv |-> [inv EXCEPT
                     !.m_SlotToItem = Without(@, inv.m_Items[ItemId].SlotIndex),
                     !.m_Items = Without(@, ItemId)]]
    ELSE [result |-> "Success",
          inv |-> [inv EXCEPT !.m_Items[ItemId].Count = @ - Count]]

\* MoveItem(ItemId, NewSlot) with the old slot's entry left in place when the
\* target slot is free.
MoveItemMutKeepOldSlot(inv, ItemId, NewSlot) ==
    IF ItemId \notin DOMAIN inv.m_Items
    THEN [result |-> "ItemNotFound", inv |-> inv]
    ELSE IF NewSlot < 0 \/ NewSlot >= m_MaxSlots
    THEN [result |-> "InvalidParameter", inv |-> inv]
    ELSE
      LET OldSlot == inv.m_Items[ItemId].SlotIndex
          occupied == NewSlot \in DOMAIN inv.m_SlotToItem
          TargetItemId == inv.m_SlotToItem[NewSlot]
          swapped ==
            IF occupied
            THEN IF TargetItemId \in DOMAIN inv.m_Items
                 THEN [inv EXCEPT
                         !.m_Items[TargetItemId].SlotIndex = OldSlot,
                         !.m_SlotToItem = With(@, OldSlot, TargetItemId)]
                 ELSE inv
            ELSE inv
      IN [result |-> "Success",
          inv |-> [swapped EXCEPT
                     !.m_Items[ItemId].SlotIndex = NewSlot,
                     !.m_SlotToItem = With(@, NewSlot, ItemId)]]

\* MoveItem(ItemId, NewSlot)
MoveItem(inv, ItemId, NewSlot) ==
    IF ItemId \notin DOMAIN inv.m_Items
    THEN [result |-> "ItemNotFound", inv |-> inv]
    ELSE IF NewSlot < 0 \/ NewSlot >= m_MaxSlots
    THEN [result |-> "InvalidParameter", inv |-> inv]
    ELSE
      LET OldSlot == inv.m_Items[ItemId].SlotIndex
          occupied == NewSlot \in DOMAIN inv.m_SlotToItem
          TargetItemId == inv.m_SlotToItem[NewSlot]
          swapped ==
            IF occupied
            THEN IF TargetItemId \in DOMAIN inv.m_Items
                 THEN [inv EXCEPT
                         !.m_Items[TargetItemId].SlotIndex = OldSlot,
                         !.m_SlotToItem = With(@, OldSlot, TargetItemId)]
                 ELSE inv
            ELSE [inv EXCEPT !.m_SlotToItem = Without(@, OldSlot)]
      IN [result |-> "Success",
          inv |-> [swapped EXCEPT
                     !.m_Items[ItemId].SlotIndex = NewSlot,
                     !.m_SlotToItem = With(@, NewSlot, ItemId)]]

\* StackItems(SourceId, TargetId)
StackItems(inv, SourceId, TargetId) ==
    IF SourceId \notin DOMAIN inv.m_Items \/ TargetId \notin DOMAIN inv.m_Items
    THEN [result |-> "ItemNotFound", inv |-> inv]
    ELSE IF inv.m_Items[SourceId].TemplateId # inv.m_Items[TargetId].TemplateId
    THEN [result |-> "InvalidParameter", inv |-> inv]
    ELSE
      LET ToAdd == Min(inv.m_Items[SourceId].Count,
                       inv.m_Items[TargetId].MaxStackSize
                         - inv.m_Items[TargetId].Count)
          added == [inv EXCEPT !.m_Items[TargetId].Count = @ + ToAdd]
          moved == [added EXCEPT !.m_Items[SourceId].Count = @ - ToAdd]
      IN [result |-> "Success",
          inv |-> IF moved.m_Items[SourceId].Count <= 0
                  THEN [moved EXCEPT
                          !.m_SlotToItem =
                              Without(@, moved.m_Items[SourceId].SlotIndex),
                          !.m_Items = Without(@, SourceId)]
                  ELSE moved]

\* EquipItem(ItemId)
EquipItem(inv, ItemId) ==
    IF ItemId \notin DOMAIN inv.m_Items
    THEN [result |-> "ItemNotFound", inv |-> inv]
    ELSE IF inv.m_Items[ItemId].Category \in {"Weapon", "Melee"}
    THEN [result |-> "Success",
          inv |-> [inv EXCEPT !.m_EquippedWeaponId = ItemId,
                              !.m_Items[ItemId].bIsEquipped = TRUE]]
    ELSE [result |-> "Success", inv |-> inv]

\* UnequipItem(ItemId)
UnequipItem(inv, ItemId) ==
    IF ItemId \notin DOMAIN inv.m_Items
    THEN [result |-> "ItemNotFound", inv |-> inv]
    ELSE [result |-> "Success",
          inv |-> [inv EXCEPT
                     !.m_Items[ItemId].bIsEquipped = FALSE,
                     !.m_EquippedWeaponId = IF @ = ItemId THEN 0 ELSE @]]

\* ConsumeResources(Type, Amount): every outcome of the call.  Type is not
\* looked at.
ConsumeResources(inv, Type, Amount) ==
    LET found == {id \in DOMAIN inv.m_Items :
                    /\ inv.m_Items[id].Category = "Resource"
                    /\ inv.m_Items[id].Count >= Amount}
    IN IF found = {}
       THEN {[result |-> "InsufficientResources", inv |-> inv]}
       ELSE {RemoveItem(inv, id, Amount) : id \in found}

\* GetWoodCount(), GetStoneCount(), GetMetalCount() through
\* FindResourceItem(Type): every value the call can return.  Type is not
\* looked at.
GetResourceCount(inv, Type) ==
    IF \A id \in DOMAIN inv.m_Items : inv.m_Items[id].Category # "Resource"
    THEN {0}
    ELSE {inv.m_Items[id].Count :
            id \in {x \in DOMAIN inv.m_Items :
                      inv.m_Items[x].Category = "Resource"}}

\* The items callers add: FInventoryItem() with the template's category and
\* stack size, and a count.
NewItems ==
    { [TemplateId |-> t[1], Category |-> t[2], Count |-> t[4],
       MaxStackSize |-> t[3], SlotIndex |-> -1, bIsEquipped |-> FALSE] :
      t \in {<<"Wood", "Resource", 3, 1>>, <<"Wood", "Resource", 3, 2>>,
             <<"Sword", "Weapon", 1, 1>>} }

ItemIds == 1..MaxItemIds

Inventory == IF probe.op = "None" THEN NewInventoryManager ELSE probe.inv

InventoryCall(op, r) ==
    probe' = [op |-> op, inv |-> r.inv, result |-> r.result,
              changed |-> r.inv # Inventory]

InventoryAddItem ==
    /\ \E Item \in NewItems : \E r \in AddItem(Inventory, Item) :
         /\ r.inv.m_ItemIdCounter <= MaxItemIds
         /\ InventoryCall("AddItem", r)
    /\ UNCHANGED <<resolverVars, coreVars, dispatchVars>>

InventoryRemoveItem ==
    /\ probe.op # "None"
    /\ \E ItemId \in ItemIds, Count \in {1, 3} :
         InventoryCall("RemoveItem", RemoveItem(probe.inv, ItemId, Count))
    /\ UNCHANGED <<resolverVars, coreVars, dispatchVars>>

InventoryMoveItem ==
    /\ probe.op # "None"
    /\ \E ItemId \in ItemIds, NewSlot \in -1..m_MaxSlots :
         InventoryCall("MoveItem", MoveItem(probe.inv, ItemId, NewSlot))
    /\ UNCHANGED <<resolverVars, coreVars, dispatchVars>>

InventoryStackItems ==
    /\ probe.op # "None"
    /\ \E SourceId \in ItemIds, TargetId \in ItemIds :
         InventoryCall("StackItems",
                       StackItems(probe.inv, SourceId, TargetId))
    /\ UNCHANGED <<resolverVars, coreVars, dispatchVars>>

InventoryEquipItem ==
    /\ probe.op # "None"
    /\ \E ItemId \in ItemIds :
         InventoryCall("EquipItem", EquipItem(probe.inv, ItemId))
    /\ UNCHANGED <<resolverVars, coreVars, dispatchVars>>

InventoryUnequipItem ==
    /\ probe.op # "None"
    /\ \E ItemId \in ItemIds :
         InventoryCall("UnequipItem", UnequipItem(probe.inv, ItemId))
    /\ UNCHANGED <<resolverVars, coreVars, dispatchVars>>

-----------------------------------------------------------------------------
(* BuildingManager.cpp: FBuildingManager                                   *)
(*                                                                         *)
(* The manager is kept in probe.bld and the inventory manager it was       *)
(* initialized with in probe.inv.  The building id "bld_N" is the number   *)
(* N.  Locations and health values are whole numbers.  A 64-bit grid key   *)
(* is the triple of its bits 40..63, 20..39 and 0..19.  No trap is placed  *)
(* and no change callback is registered.                                   *)

m_BuildLimit == 1000
MaxBuildingIds == 2
TwoTo20 == 1048576
TwoTo24 == 16777216

\* a | b on n-bit values.
RECURSIVE BitOr(_, _, _)
BitOr(a, b, n) ==
    IF n = 0 THEN 0
    ELSE (IF a % 2 = 1 \/ b % 2 = 1 THEN 1 ELSE 0)
           + 2 * BitOr(a \div 2, b \div 2, n - 1)

\* (uint64(X) << 40) | (uint64(Y) << 20) | uint64(Z) for int32 X, Y, Z: the
\* conversion to uint64 extends the sign, the shifts drop what leaves bit 63.
GridKey(X, Y, Z) ==
    << BitOr(BitOr(X % TwoTo24, (Y \div TwoTo20) % TwoTo24, 24),
             ((Z \div TwoTo20) \div TwoTo20) % TwoTo24, 24),
       BitOr(Y % TwoTo20, (Z \div TwoTo20) % TwoTo20, 20),
       Z % TwoTo20 >>

\* static_cast<int32>(Location / 512.0f): the quotient cut towards zero.
GridOf(Location) ==
    IF Location >= 0 THEN Location \div 512 ELSE -((-Location) \div 512)

\* GetDefaultBuildCost(Material)
GetDefaultBuildCost(Material) ==
    [WoodCost |-> IF Material \in {"Stone", "Metal"} THEN 0 ELSE 10,
     StoneCost |-> IF Material = "Stone" THEN 10 ELSE 0,
     MetalCost |-> IF Material = "Metal" THEN 10 ELSE 0]

\* GetDefaultBuildStats(Material).MaxHealth
MaxHealthOf(Material) ==
    IF Material = "Stone" THEN 300 ELSE IF Material = "Metal" THEN 500
    ELSE 150

\* FBuildPreview()
NewBuildPreview ==
    [Type |-> "None", Material |-> "Wood", LocationX |-> 0, LocationY |-> 0,
     LocationZ |-> 0, bIsValidPlacement |-> FALSE, bCanAfford |-> FALSE,
     bIsOverlapping |-> FALSE, bIsFloating |-> FALSE,
     Cost |-> [WoodCost |-> 0, StoneCost |-> 0, MetalCost |-> 0]]

\* FBuildingManager::FBuildingManager() and Initialize(InventoryManager)
NewBuildingManager ==
    [m_bIsInBuildMode |-> FALSE, m_CurrentBuildType |-> "None",
     m_CurrentMaterial |-> "Wood", m_BuildPreview |-> NewBuildPreview,
     m_Buildings |-> << >>, m_GridToBuildingId |-> << >>,
     m_BuildingIdCounter |-> 0]

\* EnterBuildMode(Type)
EnterBuildMode(b, Type) ==
    IF Type \in {"None", "Trap"} THEN [result |-> "InvalidParameter", bld |-> b]
    ELSE [result |-> "Success",
          bld |-> [b EXCEPT
                     !.m_bIsInBuildMode = TRUE,
                     !.m_CurrentBuildType = Type,
                     !.m_BuildPreview =
                         [NewBuildPreview EXCEPT
                            !.Type = Type,
                            !.Material = b.m_CurrentMaterial,
                            !.Cost = GetDefaultBuildCost(b.m_CurrentMaterial)]]]

\* SetBuildMaterial(Material)
SetBuildMaterial(b, Material) ==
    IF b.m_bIsInBuildMode
    THEN [b EXCEPT !.m_CurrentMaterial = Material,
                   !.m_BuildPreview.Material = Material,
                   !.m_BuildPreview.Cost = GetDefaultBuildCost(Material)]
    ELSE [b EXCEPT !.m_CurrentMaterial = Material]

\* GetBuildingAtGrid(X, Y, Z): the id of the building returned, 0 for nullptr.
GetBuildingAtGrid(b, X, Y, Z) ==
    IF GridKey(X, Y, Z) \in DOMAIN b.m_GridToBuildingId
         /\ b.m_GridToBuildingId[GridKey(X, Y, Z)] \in DOMAIN b.m_Buildings
    THEN b.m_GridToBuildingId[GridKey(X, Y, Z)]
    ELSE 0

\* CheckOverlap(X, Y, Z)
CheckOverlap(b, X, Y, Z) ==
    GetBuildingAtGrid(b, GridOf(X), GridOf(Y), GridOf(Z)) # 0

\* FBuildingCost::CanAfford(Wood, Stone, Metal)
CanAfford(Cost, Wood, Stone, Metal) ==
    Wood >= Cost.WoodCost /\ Stone >= Cost.StoneCost /\ Metal >= Cost.MetalCost

\* UpdateBuildPreview(LocationX, LocationY, LocationZ, Rotation): every
\* outcome of the call.  The three counts come from the same item, the first
\* resource item of m_Items.
UpdateBuildPreview(b, inv, X, Y, Z) ==
    IF ~b.m_bIsInBuildMode THEN {b}
    ELSE {[b EXCEPT
             !.m_BuildPreview.LocationX = X,
             !.m_BuildPreview.LocationY = Y,
             !.m_BuildPreview.LocationZ = Z,
             !.m_BuildPreview.bIsOverlapping = CheckOverlap(b, X, Y, Z),
             !.m_BuildPreview.bIsFloating = FALSE,
             !.m_BuildPreview.bIsValidPlacement = ~CheckOverlap(b, X, Y, Z),
             !.m_BuildPreview.bCanAfford =
                 CanAfford(b.m_BuildPreview.Cost, n, n, n)] :
          n \in GetResourceCount(inv, "Wood")}

\* The inventories the calls ConsumeResources(Type, Amount) of ConfirmBuild
\* can leave, made for each cost above zero, their results not looked at.
ConsumeCost(inv, Cost) ==
    LET After(invs, Type, Amount) ==
          IF Amount > 0
          THEN UNION {{r.inv : r \in ConsumeResources(i, Type, Amount)} :
                      i \in invs}
          ELSE invs
    IN After(After(After({inv}, "Wood", Cost.WoodCost),
                   "Stone", Cost.StoneCost), "Metal", Cost.MetalCost)

\* The building ConfirmBuild() stores.
NewBuilding(Preview) ==
    [Type |-> Preview.Type, Material |-> Preview.Material,
     State |-> "Building", CurrentHealth |-> MaxHealthOf(Preview.Material),
     Cost |-> Preview.Cost,
     GridX |-> GridOf(Preview.LocationX), GridY |-> GridOf(Preview.LocationY),
     GridZ |-> GridOf(Preview.LocationZ)]

\* ConfirmBuild(): every outcome of the call.
ConfirmBuild(b, inv) ==
    IF ~b.m_bIsInBuildMode
    THEN {[result |-> "InvalidState", bld |-> b, inv |-> inv]}
    ELSE IF ~b.m_BuildPreview.bIsValidPlacement
    THEN {[result |-> "InvalidPlacement", bld |-> b, inv |-> inv]}
    ELSE IF ~b.m_BuildPreview.bCanAfford
    THEN {[result |-> "InsufficientResources", bld |-> b, inv |-> inv]}
    ELSE IF Cardinality(DOMAIN b.m_Buildings) >= m_BuildLimit
    THEN {[result |-> "BuildLimitReached", bld |-> b, inv |-> inv]}
    ELSE {[result |-> "Success",
           bld |-> [b EXCEPT
                      !.m_BuildingIdCounter = @ + 1,
                      !.m_Buildings =
                          With(@, b.m_BuildingIdCounter + 1,
                               NewBuilding(b.m_BuildPreview)),
                      !.m_GridToBuildingId =
                          With(@, GridKey(GridOf(b.m_BuildPreview.LocationX),
                                          GridOf(b.m_BuildPreview.LocationY),
                                          GridOf(b.m_BuildPreview.LocationZ)),
                               b.m_BuildingIdCounter + 1)],
           inv |-> i] :
          i \in ConsumeCost(inv, b.m_BuildPreview.Cost)}

\* The grid entry and the building erased by DamageBuilding().
EraseBuilding(b, BuildingId) ==
    [b EXCEPT !.m_GridToBuildingId =
                  Without(@, GridKey(b.m_Buildings[BuildingId].GridX,
                                     b.m_Buildings[BuildingId].GridY,
                                     b.m_Buildings[BuildingId].GridZ)),
              !.m_Buildings = Without(@, BuildingId)]

\* DamageBuilding(BuildingId, Damage, DamageCauser), the resistance being 0.
DamageBuilding(b, BuildingId, Damage) ==
    IF BuildingId \notin DOMAIN b.m_Buildings
    THEN [result |-> "BuildingNotFound", bld |-> b]
    ELSE IF b.m_Buildings[BuildingId].CurrentHealth - Damage <= 0
    THEN [result |-> "Success", bld |-> EraseBuilding(b, BuildingId)]
    ELSE [result |-> "Success",
          bld |-> [b EXCEPT !.m_Buildings[BuildingId].CurrentHealth =
                                @ - Damage,
                            !.m_Buildings[BuildingId].State = "Damaged"]]

\* GetItemCount(TemplateId)
GetItemCount(inv, TemplateId) ==
    LET RECURSIVE Sum(_)
        Sum(ids) == IF ids = {} THEN 0
                    ELSE LET id == CHOOSE x \in ids : TRUE
                         IN inv.m_Items[id].Count + Sum(ids \ {id})
    IN Sum({id \in DOMAIN inv.m_Items :
              inv.m_Items[id].TemplateId = TemplateId})

TemplateOf(Material) ==
    IF Material = "Stone" THEN "Resource:Stone"
    ELSE IF Material = "Metal" THEN "Resource:Metal" ELSE "Resource:Wood"

\* The cost a FBuildingCost asks of one material.
CostIn(Cost, Material) ==
    IF Material = "Stone" THEN Cost.StoneCost
    ELSE IF Material = "Metal" THEN Cost.MetalCost ELSE Cost.WoodCost

\* What the player gathers: ten of wood or of stone.
GatheredItems ==
    { [TemplateId |-> t, Category |-> "Resource", Count |-> 10,
       MaxStackSize |-> 20, SlotIndex |-> -1, bIsEquipped |-> FALSE] :
        t \in {"Resource:Wood", "Resource:Stone"} }

BuildLocations == {<<0, 0, -512>>, <<512, 0, -512>>}
BuildingIds == 1..MaxBuildingIds

Site == IF probe.op = "None"
        THEN [bld |-> NewBuildingManager, inv |-> NewInventoryManager]
        ELSE [bld |-> probe.bld, inv |-> probe.inv]

\* A call on the building manager or on its inventory has returned.  built
\* tells whether the call stored a building, stock is what the inventory
\* held of the preview's material before the call, changed whether the call
\* left the inventory different.
SiteCall(op, bld, inv, result) ==
    probe' = [op |-> op, bld |-> bld, inv |-> inv, result |-> result,
              built |-> DOMAIN bld.m_Buildings \ DOMAIN Site.bld.m_Buildings,
              stock |-> IF op = "ConfirmBuild"
                        THEN GetItemCount(Site.inv,
                               TemplateOf(Site.bld.m_BuildPreview.Material))
                        ELSE 0,
              changed |-> op = "ConfirmBuild" /\ inv # Site.inv]

BuildingGather ==
    /\ \E Item \in GatheredItems : \E r \in AddItem(Site.inv, Item) :
         /\ r.inv.m_ItemIdCounter <= m_MaxSlots
         /\ SiteCall("AddItem", Site.bld, r.inv, r.result)
    /\ UNCHANGED <<resolverVars, coreVars, dispatchVars>>

BuildingEnterBuildMode ==
    /\ probe.op # "None"
    /\ \E Type \in {"None", "Wall"} :
       \E r \in {EnterBuildMode(probe.bld, Type)} :
         SiteCall("EnterBuildMode", r.bld, probe.inv, r.result)
    /\ UNCHANGED <<resolverVars, coreVars, dispatchVars>>

BuildingSetBuildMaterial ==
    /\ probe.op # "None"
    /\ \E Material \in {"Wood", "Stone"} :
         SiteCall("SetBuildMaterial", SetBuildMaterial(probe.bld, Material),
                  probe.inv, "void")
    /\ UNCHANGED <<resolverVars, coreVars, dispatchVars>>

BuildingUpdateBuildPreview ==
    /\ probe.op # "None"
    /\ \E l \in BuildLocations :
       \E bld \in UpdateBuildPreview(probe.bld, probe.inv, l[1], l[2], l[3]) :
         SiteCall("UpdateBuildPreview", bld, probe.inv, "void")
    /\ UNCHANGED <<resolverVars, coreVars, dispatchVars>>

BuildingConfirmBuild ==
    /\ probe.op # "None"
    /\ \E r \in ConfirmBuild(probe.bld, probe.inv) :
         /\ r.bld.m_BuildingIdCounter <= MaxBuildingIds
         /\ SiteCall("ConfirmBuild", r.bld, r.inv, r.result)
    /\ UNCHANGED <<resolverVars, coreVars, dispatchVars>>

BuildingDamageBuilding ==
    /\ probe.op # "None"
    /\ \E BuildingId \in BuildingIds :
       \E r \in {DamageBuilding(probe.bld, BuildingId, 300)} :
         SiteCall("DamageBuilding", r.bld, probe.inv, r.result)
    /\ UNCHANGED <<resolverVars, coreVars, dispatchVars>>

-----------------------------------------------------------------------------
(* Specifications                                                          *)

\* No lookup has been called.
NoProbe == [op |-> "None"]

Init == InitResolver /\ InitCore /\ InitDispatcher /\ probe = NoProbe

\* The version resolver on its own: DetectVersion() in every environment.
DetectVersion ==
    /\ DetectVersionIn(DetectEnvs)
    /\ UNCHANGED <<coreVars, dispatchVars, probe>>

Next == DetectVersion

Spec == Init /\ [][Next]_vars

\* Start-up and teardown: the public entry points in any order.  One counter per
\* generation, and each strategy, stand for the environments.
CoreCLs == {3541083, 3922182, 5110300, 9141206, 10127509, 13692932}

CoreDetectEnvs ==
    { [vs |-> VersionString(c), ev |-> EngineVersionNotFound, pat |-> {}] :
         c \in CoreCLs } \cup
    { [vs |-> VersionString(0), ev |-> EngineVersion(c), pat |-> {}] :
         c \in {4683176} } \cup
    { [vs |-> VersionString(0), ev |-> EngineVersionNotFound, pat |-> p] :
         p \in {{}, {"FField", "FNamePool"}} }

DetectVersionCore ==
    /\ DetectVersionIn(CoreDetectEnvs)
    /\ UNCHANGED <<coreVars, dispatchVars, probe>>

EngineInitializeCore ==
    /\ EngineInitialize(CoreDetectEnvs)
    /\ UNCHANGED <<dispatchVars, probe>>

EngineShutdownCore ==
    /\ EngineShutdown
    /\ UNCHANGED <<dispatchVars, probe>>

GetPropertyIteratorCore ==
    /\ GetPropertyIteratorCall
    /\ UNCHANGED <<dispatchVars, probe>>

\* The resolver with its public SupportsVersion() query.
SupportsVersionCall ==
    /\ SupportsVersionQuery
    /\ UNCHANGED <<coreVars, dispatchVars, probe>>

NextEnvelope == DetectVersionCore \/ SupportsVersionCall

SpecEnvelope == Init /\ [][NextEnvelope]_vars

NextCore ==
    \/ DetectVersionCore
    \/ EngineInitializeCore
    \/ EngineShutdownCore
    \/ GetPropertyIteratorCore
    \/ DispatcherInitialize
    \/ DispatcherShutdown

SpecCore == Init /\ [][NextCore]_vars

\* The dispatcher's registry and dispatch.
NextDispatch ==
    \/ DispatcherInitialize
    \/ DispatcherShutdown
    \/ RegisterHandler
    \/ UnregisterHandler
    \/ SetHandlerEnabled
    \/ OnProcessEvent

SpecDispatch == Init /\ [][NextDispatch]_vars

\* The dispatcher with its dispatch loop interleaved with registration and
\* unregistration.
NextReentrant ==
    \/ DispatcherInitialize
    \/ RegisterHandler
    \/ UnregisterHandler
    \/ BeginDispatch
    \/ StepDispatch

SpecReentrant == Init /\ [][NextReentrant]_vars

\* An object array of either variant: constructed, initialized, queried.
NextObjectTable ==
    \/ ObjectArrayCreate
    \/ ObjectArrayInitialize
    \/ ObjectArrayGetByIndex
    \/ ObjectArrayGetItemByIndex

SpecObjectTable == Init /\ [][NextObjectTable]_vars

\* A name pool of either variant: constructed, initialized, queried.
NextNameTable ==
    \/ NamePoolCreate
    \/ NamePoolInitialize
    \/ NamePoolGetNameString
    \/ NamePoolNum
    \/ NamePoolIsValidIndex

SpecNameTable == Init /\ [][NextNameTable]_vars

\* A property iterator of either variant walking the types of a process.  The
\* thread that runs a walk keeps running it.
NextFields ==
    \/ FieldsGetPropertyIterator
    \/ ForEachPropertyCall
    \/ FindPropertyCall
    \/ WalkStepCall

SpecFields == Init /\ [][NextFields]_vars /\ WF_vars(WalkStepCall)

\* The offset resolver and the consumers of its lookups.
NextLayout ==
    \/ OffsetResolverGet
    \/ OffsetResolverResolveOffsets
    \/ OffsetResolverGetOffset
    \/ PropertyIteratorInitialize

SpecLayout == Init /\ [][NextLayout]_vars

\* Field classification by both iterators.
NextKinds ==
    \/ UPropertyClassifyPropertyCall
    \/ FFieldClassifyPropertyCall

SpecKinds == Init /\ [][NextKinds]_vars

\* The change detector over a serializer whose array changes between calls.
NextChanges ==
    \/ FFastArrayChangeDetectorCreate
    \/ ChangeDetectorInitialize
    \/ ChangeDetectorDetectChanges
    \/ ChangeDetectorReset

SpecChanges == Init /\ [][NextChanges]_vars

\* The dispatcher resolving the parameter lists of callables.
NextParams ==
    \/ ParamsGetPropertyIterator
    \/ GetFunctionInfoCall
    \/ ParseParametersCall

SpecParams == Init /\ [][NextParams]_vars

\* Pattern scans over address ranges.
NextScan == FindPatternCall

SpecScan == Init /\ [][NextScan]_vars

\* A fast array serializer of either format over one native array.
NextFastArray ==
    \/ FastArrayCreate
    \/ FastArrayInitialize
    \/ FastArrayMarkItemDirty
    \/ FastArrayMarkAllDirty
    \/ FastArrayIsItemDirty

SpecFastArray == Init /\ [][NextFastArray]_vars

\* The engine core with a consumer of FNameWrapper.
NextWrapper ==
    \/ EngineInitializeCore
    \/ EngineShutdownCore
    \/ FNameWrapperGetNameCall

SpecWrapper == Init /\ [][NextWrapper]_vars

\* Two threads resolving names through one packed name pool.
NextThreads ==
    \/ ThreadGetNameString
    \/ ThreadStepLoop
    \/ ThreadReturn

SpecThreads == Init /\ [][NextThreads]_vars

\* The mission manager and its callers.
NextMission ==
    \/ MissionStartMission
    \/ MissionOnMissionEvent
    \/ MissionUpdateCall
    \/ MissionAbortMission
    \/ MissionUpdateObjectiveProgress

SpecMission == Init /\ [][NextMission]_vars

\* The inventory manager and its callers.
NextInventory ==
    \/ InventoryAddItem
    \/ InventoryRemoveItem
    \/ InventoryMoveItem
    \/ InventoryStackItems
    \/ InventoryEquipItem
    \/ InventoryUnequipItem

SpecInventory == Init /\ [][NextInventory]_vars

\* The building manager, its inventory and the player.
NextBuilding ==
    \/ BuildingGather
    \/ BuildingEnterBuildMode
    \/ BuildingSetBuildMaterial
    \/ BuildingUpdateBuildPreview
    \/ BuildingConfirmBuild
    \/ BuildingDamageBuilding

SpecBuilding == Init /\ [][NextBuilding]_vars

-----------------------------------------------------------------------------
(* Properties                                                              *)

\* C1: after a first successful DetectVersion(), every later DetectVersion()
\* call again succeeds, leaves the cached FVersionInfo identical and issues no
\* scan.
C1_ResolveAgainSucceeds ==
    lastDetect.called /\ lastDetect.preDetected =>
        /\ lastDetect.result = "Success"
        /\ m_VersionInfo = lastDetect.preInfo
        /\ lastDetect.scans = 0

\* A second DetectVersion() after a successful one: the record is untouched
\* and nothing is scanned, but the call returns AlreadyInitialized.
C1_SecondCallRejected ==
    /\ lastDetect.called /\ lastDetect.preDetected
    /\ lastDetect.result = "AlreadyInitialized"
    /\ m_VersionInfo = lastDetect.preInfo
    /\ lastDetect.scans = 0

\* C2: for every build counter c a strategy hands to the table and every row
\* with CLMin <= c < CLMax, the resolver's (EngineVersionMajor,
\* EngineVersionMinor, FortniteVersion) is exactly that row's, and FortniteCL
\* is c.  The version string's counter is mapped first; the accessor's counter
\* is mapped when the version string gave no counter that is in a row.
C2_TableRangeMapping ==
    LET vs == lastDetect.env.vs
        ev == lastDetect.env.ev
        InRow(i, c) == s_CLMappings[i][1] <= c /\ c < s_CLMappings[i][2]
        InTable(c) == \E i \in 1..s_CLMappingCount : InRow(i, c)
        IsRow(i, c) ==
            /\ m_VersionInfo.FortniteCL = c
            /\ m_VersionInfo.EngineVersionMajor = s_CLMappings[i][3]
            /\ m_VersionInfo.EngineVersionMinor = s_CLMappings[i][4]
            /\ m_VersionInfo.FortniteVersion = s_CLMappings[i][5]
        fromString == vs.found /\ vs.hasCL
    IN lastDetect.called /\ ~lastDetect.preDetected =>
         \A i \in 1..s_CLMappingCount :
            /\ (fromString /\ InRow(i, vs.cl) => IsRow(i, vs.cl))
            /\ (~(fromString /\ InTable(vs.cl)) /\ ev.found /\ ev.parsed
                   /\ InRow(i, ev.cl) => IsRow(i, ev.cl))

\* The accessor's counter is the last value of the last row's range and the
\* table answered with that row.
C2_LastRowUpperEdge ==
    /\ lastDetect.called /\ lastDetect.strategy = "CL"
    /\ lastDetect.env.ev.cl = s_CLMappings[s_CLMappingCount][2] - 1
    /\ m_VersionInfo.FortniteCL = lastDetect.env.ev.cl
    /\ m_VersionInfo.EngineVersionMajor = s_CLMappings[s_CLMappingCount][3]
    /\ m_VersionInfo.FortniteVersion = s_CLMappings[s_CLMappingCount][5]

\* C3: when the version string or the accessor yields a build counter and no
\* counter obtained lies in a table row, DetectVersion() fails and no release
\* is recorded as detected.
C3_OutOfRangeCounterFails ==
    LET vs == lastDetect.env.vs
        ev == lastDetect.env.ev
        InTable(c) == \E i \in 1..s_CLMappingCount :
                         s_CLMappings[i][1] <= c /\ c < s_CLMappings[i][2]
        fromString == vs.found /\ vs.hasCL /\ vs.cl > 0
        fromAccessor == ev.found /\ ev.parsed
        unmapped ==
            /\ lastDetect.called /\ ~lastDetect.preDetected
            /\ fromString \/ fromAccessor
            /\ fromString => ~InTable(vs.cl)
            /\ fromAccessor => ~InTable(ev.cl)
    IN unmapped => (lastDetect.result # "Success" /\ ~m_bDetected)

\* The version string carries a counter just below the first row, the accessor
\* is missing, no signature is present: DetectVersion() returned Success with
\* the built-in 4.16 / 1.80 release.
C3_OutOfRangeCounterAccepted ==
    /\ lastDetect.called /\ ~lastDetect.preDetected
    /\ lastDetect.env.vs = VersionString(s_CLMappings[1][1] - 1)
    /\ lastDetect.env.ev = EngineVersionNotFound
    /\ lastDetect.env.pat = {}
    /\ lastDetect.result = "Success" /\ m_bDetected
    /\ lastDetect.strategy = "Patterns"
    /\ m_VersionInfo.EngineVersionMajor = 4 /\ m_VersionInfo.EngineVersionMinor = 16
    /\ m_VersionInfo.FortniteVersion = 180 /\ m_VersionInfo.FortniteCL = 3724489

\* C4: a release is supported only inside the envelope (major 4 with minor
\* 16..27, major 5 with minor <= 2): SupportsVersion() answers true exactly
\* there, DetectVersion() returns Success and marks the release detected only
\* there, and an InvalidVersion result leaves nothing detected.
C4_SupportedEnvelope ==
    LET InEnvelope(major, minor) ==
            \/ major = 4 /\ minor >= 16 /\ minor <= 27
            \/ major = 5 /\ minor <= 2
    IN /\ lastQuery.asked =>
            (lastQuery.answer <=> InEnvelope(lastQuery.major, lastQuery.minor))
       /\ (m_bDetected \/ lastDetect.result = "Success") =>
            InEnvelope(m_VersionInfo.EngineVersionMajor,
                       m_VersionInfo.EngineVersionMinor)
       /\ lastDetect.result = "InvalidVersion" => ~m_bDetected

\* A 5.0 release has been detected and 5.3 has been refused.
C4_Refused53 ==
    /\ m_bDetected /\ m_VersionInfo.EngineVersionMajor = 5
    /\ lastQuery.asked /\ lastQuery.major = 5 /\ lastQuery.minor = 3
    /\ ~lastQuery.answer

\* C5: after a successful DetectVersion(), whichever strategy answered, the
\* five feature flags are the fixed function of (EngineVersionMajor,
\* EngineVersionMinor, FortniteVersion) written out here.
C5_FlagsPureFunction ==
    LET Major == m_VersionInfo.EngineVersionMajor
        Minor == m_VersionInfo.EngineVersionMinor
        FN    == m_VersionInfo.FortniteVersion
        AtLeast(minor) == (Major = 4 /\ Minor >= minor) \/ Major >= 5
    IN m_bDetected =>
         /\ m_VersionInfo.bUseFNamePool = AtLeast(23)
         /\ m_VersionInfo.bUseFField = AtLeast(25)
         /\ m_VersionInfo.bUseChunkedObjects = AtLeast(21)
         /\ m_VersionInfo.bUseNewFastArraySerializer = (FN >= 830)
         /\ m_VersionInfo.bUseTObjectPtr = (Major >= 5)

\* The signature strategy answered 4.25 / 15.00 and the flags follow from it.
C5_FlagsAfterPatterns ==
    /\ m_bDetected /\ lastDetect.strategy = "Patterns"
    /\ m_VersionInfo.EngineVersionMinor = 25
    /\ m_VersionInfo.bUseFField /\ m_VersionInfo.bUseFNamePool
    /\ m_VersionInfo.bUseNewFastArraySerializer
    /\ ~m_VersionInfo.bUseTObjectPtr

\* C6: no object array, name pool or property iterator exists, and the
\* dispatcher is not initialized, unless version detection and offset
\* resolution have both completed.
C6_InitHappensBefore ==
    LET used ==
            \/ m_pObjectArray.variant # "null"
            \/ m_pNamePool.variant # "null"
            \/ g_PropertyIterator.variant # "null"
            \/ m_bInitialized
    IN used => (m_bDetected /\ m_bResolved)

\* The property iterator was created from the default record, before
\* detection: it is the UProperty variant, initialized, and stays so after a
\* 4.25+ release (FField) was detected and the core fully initialized.
C6_StaleIteratorVariant ==
    /\ g_PropertyIterator.variant = "FUPropertyIterator"
    /\ g_PropertyIterator.bInitialized
    /\ m_bDetected /\ m_VersionInfo.bUseFField
    /\ m_Status.bFullyInitialized

\* C7: on every OnProcessEvent() call, whatever the registration order, the
\* handlers invoked are in non-increasing priority order, and an enabled
\* matching handler of higher priority than an invoked one was invoked before
\* it.
C7_DescendingPriority ==
    LET inv == lastEvent.invoked
        Context == MakeContext(lastEvent.event)
    IN lastEvent.returned /\ lastEvent.initialized =>
         /\ \A i, j \in 1..Len(inv) :
               i < j => inv[i].Priority >= inv[j].Priority
         /\ \A k \in 1..Len(m_Handlers), j \in 1..Len(inv) :
               ( /\ m_Handlers[k].bEnabled
                 /\ Matches(m_Handlers[k].Filter, Context)
                 /\ m_Handlers[k].Priority > inv[j].Priority )
               => \E i \in 1..(j - 1) : inv[i].HandlerId = m_Handlers[k].HandlerId

\* Priorities 5 and then 10 were registered on the same filter; the
\* priority-10 handler, registered later, was invoked first.
C7_LaterRegisteredInvokedFirst ==
    /\ lastEvent.returned /\ Len(lastEvent.invoked) = 2
    /\ lastEvent.invoked[1].Priority = 10 /\ lastEvent.invoked[2].Priority = 5
    /\ lastEvent.invoked[1].HandlerId > lastEvent.invoked[2].HandlerId
    /\ lastEvent.invoked[1].Filter = lastEvent.invoked[2].Filter

\* C8: a handler that returns false is the last one invoked for that call and
\* the call returns false; when every invoked handler returns true the call
\* returns true.
C8_StopHaltsDispatch ==
    LET ret == lastEvent.returns IN
    lastEvent.returned =>
      /\ Len(ret) = Len(lastEvent.invoked)
      /\ \A i \in 1..Len(ret) : ~ret[i] => (i = Len(ret) /\ ~lastEvent.allow)
      /\ (\A i \in 1..Len(ret) : ret[i]) => lastEvent.allow

\* The first of two enabled matching handlers returned false: the second was
\* not invoked and the call returned false.
C8_SecondHandlerSkipped ==
    /\ lastEvent.returned /\ ~lastEvent.allow
    /\ Len(lastEvent.invoked) = 1 /\ lastEvent.returns = <<FALSE>>
    /\ Cardinality(Callable(m_Handlers, MakeContext(lastEvent.event))) = 2

\* C9: an OnProcessEvent() call that returns false adds exactly one to
\* m_TotalEventsBlocked, and one that returns true leaves it unchanged.
C9_SuppressedCounter ==
    [][ lastEvent'.returned =>
          m_TotalEventsBlocked' =
             m_TotalEventsBlocked + (IF lastEvent'.allow THEN 0 ELSE 1) ]_vars

\* Two calls since Initialize(): one returned false, the latest returned true
\* after invoking a handler, and the counter stands at one.
C9_OneOfTwoSuppressed ==
    /\ lastEvent.returned /\ lastEvent.allow /\ Len(lastEvent.invoked) > 0
    /\ m_TotalEventsProcessed = 2
    /\ m_TotalEventsBlocked = 1

\* C10: m_TotalEventsHandled counts the calls with at least one matching
\* handler, so m_TotalEventsBlocked <= m_TotalEventsHandled <=
\* m_TotalEventsProcessed in every state.
C10_HandledCounterOrdered ==
    /\ m_TotalEventsBlocked <= m_TotalEventsHandled
    /\ m_TotalEventsHandled <= m_TotalEventsProcessed

\* One call since Initialize() invoked two handlers: the handled counter is
\* two, the processed counter one.
C10_HandledExceedsProcessed ==
    /\ lastEvent.returned /\ Len(lastEvent.invoked) = 2
    /\ m_TotalEventsProcessed = 1
    /\ m_TotalEventsHandled = 2

\* C11: ParseParameters is called for an intercepted call exactly when some
\* enabled handler's filter matches it; a call no enabled handler matches
\* resolves no parameter list, and the function cache gains an entry only for
\* a matched call.
C11_ParseIffMatched ==
    LET Context == MakeContext(lastEvent.event)
        matched == \E k \in 1..Len(m_Handlers) :
                      /\ m_Handlers[k].bEnabled
                      /\ Matches(m_Handlers[k].Filter, Context)
    IN /\ lastEvent.returned /\ lastEvent.initialized =>
            /\ lastEvent.parsed <=> matched
            /\ lastEvent.resolved => matched
       /\ lastEvent.returned /\ ~lastEvent.initialized =>
            ~lastEvent.parsed /\ ~lastEvent.resolved
       /\ m_FunctionCache # {} => m_TotalEventsHandled > 0

\* A call with parameters met two registered handlers whose filters match but
\* which are both disabled: nothing was parsed or resolved.
C11_DisabledMatchNotParsed ==
    /\ lastEvent.returned /\ lastEvent.initialized /\ lastEvent.event.params
    /\ Len(m_Handlers) = 2
    /\ \A k \in 1..2 : /\ ~m_Handlers[k].bEnabled
                       /\ Matches(m_Handlers[k].Filter, MakeContext(lastEvent.event))
    /\ ~lastEvent.parsed /\ ~lastEvent.resolved /\ m_FunctionCache = {}

\* C12: a dispatch iterates the registry as it was when the dispatch began,
\* whatever is registered or unregistered meanwhile: each iteration reads the
\* element that was at its position at the start, and never something that
\* is no registered handler.
C12_DispatchIteratesSnapshot ==
    /\ ~loop.fault
    /\ \A i \in 1..Len(loop.read) : loop.read[i] = loop.snapshot[i]

\* A handler was unregistered while the loop stood before the last position:
\* the loop, whose end() was taken at the start, read past the live elements.
C12_ReadPastErasedEnd ==
    /\ loop.fault
    /\ Len(m_Handlers) < Len(loop.snapshot)
    /\ Len(loop.read) > Len(m_Handlers)
    /\ loop.read[Len(loop.read)] = InvalidElement

\* C13: in both object-array variants GetByIndex(i) is null, and
\* GetItemByIndex(i) fails without reading, for every i < 0 and every
\* i >= Num(), whatever the memory holds at that position.  Num() is the
\* NumElements the array read from the engine's header.
C13_OutOfRangeAbsent ==
    (/\ probe.op \in {"GetByIndex", "GetItemByIndex"}
     /\ (probe.Index < 0 \/ probe.Index >= ObjectArrayNum(probe.table)))
    => /\ probe.addr = NullPtr
       /\ probe.op = "GetByIndex" => probe.result = NullPtr
       /\ probe.op = "GetItemByIndex" => ~probe.result /\ probe.Object = NullPtr

\* A chunked array of ElementsPerChunk + 1 objects is asked for the index
\* equal to its count, while the engine already holds an object there.
C13_IndexEqualToCount ==
    /\ probe.op = "GetByIndex"
    /\ probe.table.variant = "Chunked" /\ probe.table.m_bInitialized
    /\ probe.Index = ElementsPerChunk + 1
    /\ ObjectArrayNum(probe.table) = probe.Index
    /\ probe.mem.unreadable = {} /\ probe.mem.nullChunks = {}
    /\ probe.mem.freed = {}
    /\ probe.result = NullPtr

\* C14: in the chunked object array every valid index i is read from chunk
\* i div ElementsPerChunk at slot i mod ElementsPerChunk, so the object
\* returned is the one the engine keeps under index i; a null chunk pointer
\* gives null / false and no item read.
C14_ChunkRouting ==
    (/\ probe.op \in {"GetByIndex", "GetItemByIndex"}
     /\ probe.table.variant = "Chunked"
     /\ IsValidIndex(probe.table, probe.Index))
    => LET chunk == probe.Index \div ElementsPerChunk
           slot == probe.Index % ElementsPerChunk
           Object == IF probe.op = "GetByIndex" THEN probe.result
                     ELSE probe.Object
       IN /\ (chunk \in probe.mem.nullChunks) =>
                (/\ probe.addr = NullPtr /\ Object = NullPtr
                 /\ probe.op = "GetItemByIndex" => ~probe.result)
          /\ (chunk \notin probe.mem.nullChunks /\ probe.mem.unreadable = {}) =>
                (/\ probe.addr = ChunkBase(chunk) + slot * ItemSize
                 /\ Object = (IF probe.Index \in probe.mem.freed THEN NullPtr
                              ELSE ObjectPtr(probe.Index))
                 /\ probe.op = "GetItemByIndex" => probe.result)

\* Index ElementsPerChunk - 1 was read from the last slot of chunk 0 although
\* chunk 1 is not allocated.
C14_LastSlotOfChunkZero ==
    /\ probe.op = "GetByIndex"
    /\ probe.table.variant = "Chunked"
    /\ probe.Index = ElementsPerChunk - 1
    /\ IsValidIndex(probe.table, probe.Index)
    /\ probe.mem.nullChunks = {1}
    /\ probe.addr = ChunkBase(0) + (ElementsPerChunk - 1) * ItemSize
    /\ probe.result = ObjectPtr(ElementsPerChunk - 1)

\* The lookup of probe could not resolve an entry: the pool is not
\* initialized, the index is negative or beyond the chunks / blocks, a pointer
\* is null, an address is unreadable (the entry's characters included), or
\* the entry is longer than MaxNameLength.
NameResolutionFails ==
    \/ ~probe.table.m_bInitialized
    \/ probe.ComparisonIndex < 0
    \/ (probe.table.variant = "GNames"
          /\ probe.ComparisonIndex >= probe.table.m_NumElements)
    \/ (probe.table.variant = "Pool"
          /\ probe.ComparisonIndex \div BlockShift >= probe.table.m_NumBlocks)
    \/ probe.mem.chunk # "ok"
    \/ (probe.table.variant = "GNames" /\ probe.mem.entryPtr # "ok")
    \/ probe.mem.header # "ok"
    \/ probe.mem.lenKind = "overlong"
    \/ (probe.table.variant = "GNames" /\ probe.mem.lenKind = "exact"
          /\ probe.mem.readable <= Len(probe.mem.text))
    \/ (probe.table.variant = "Pool" /\ probe.mem.lenKind = "exact"
          /\ probe.mem.readable < Len(probe.mem.text))

\* C15: in both name-pool variants GetNameString returns the empty string
\* whenever resolution fails, never partial or stale text.
C15_FailureGivesEmptyString ==
    (probe.op = "GetNameString" /\ NameResolutionFails) => probe.result = << >>

\* The packed pool read the header of "Ac" but none of its characters; the
\* string returned is what the previous lookup left in the static buffer.
C15_StaleTextReturned ==
    /\ probe.op = "GetNameString"
    /\ probe.table.variant = "Pool"
    /\ probe.mem.text = Str_NameAc /\ probe.mem.lenKind = "exact"
    /\ ~probe.mem.wide /\ probe.mem.readable = 0
    /\ probe.result = <<80, 97>>

\* C16: the packed name pool never reports 0 or -1 as its entry count.
C16_CountNotZeroOrMinusOne ==
    (probe.op = "NameNum" /\ probe.table.variant = "Pool")
    => probe.result \notin {0, -1}

\* An initialized packed pool that has resolved a name reports -1 entries.
C16_InitializedPoolReportsMinusOne ==
    /\ probe.op = "NameNum"
    /\ probe.table.variant = "Pool" /\ probe.table.m_bInitialized
    /\ probe.AnsiBuffer # ZeroBuffer
    /\ probe.result = -1

\* C17 as stated: for every field f yielded by ForEachProperty(Struct, ...,
\* true), FindProperty(Struct, f.Name) finds f itself, in both variants.
C17_FindReturnsField ==
    (probe.op = "FindProperty" /\ ~probe.walk.active)
    => (probe.walk.bFound /\ probe.walk.OutInfo = probe.f)

\* C17, amended: FindProperty(Struct, f.Name) finds the first field named
\* f.Name in the order ForEachProperty(Struct, ..., true) yields them (own
\* fields before those of the super types); that is f itself whenever no
\* other yielded field carries the same name.
C17_FindReturnsFirstNamed ==
    (probe.op = "FindProperty" /\ ~probe.walk.active)
    => /\ probe.walk.bFound
       /\ \E k \in 1..Len(probe.all) :
            /\ probe.all[k] = probe.walk.OutInfo
            /\ probe.all[k].Name = probe.f.Name
            /\ \A j \in 1..(k - 1) : probe.all[j].Name # probe.f.Name
       /\ (\A k \in 1..Len(probe.all) :
              probe.all[k].Name = probe.f.Name => probe.all[k] = probe.f)
            => probe.walk.OutInfo = probe.f

\* The field of struct 2 was yielded through the super type of the struct
\* asked for, and FindProperty went up the same chain and returned it.
C17_InheritedFieldFound ==
    /\ probe.op = "FindProperty" /\ ~probe.walk.active
    /\ probe.walk.start # 2 /\ probe.walk.depth >= 1
    /\ probe.f.PropertyPtr = 21
    /\ probe.walk.bFound /\ probe.walk.OutInfo = probe.f

\* C18: every ForEachProperty(Struct, ..., true) that is running returns,
\* also when the SuperStruct chain is cyclic.
C18_ForEachTerminates ==
    (probe.op = "ForEachProperty" /\ probe.walk.bIncludeSuper
       /\ probe.walk.active)
    ~> (probe.op # "None" /\ ~probe.walk.active)

\* Struct 1 and struct 2 name each other as super type; the walk recursed
\* until the stack was exhausted.
C18_CyclicChainOverflows ==
    /\ probe.op = "ForEachProperty"
    /\ probe.env.super[1] = 2 /\ probe.env.super[2] = 1
    /\ probe.walk.start = 1
    /\ probe.walk.overflow /\ probe.walk.depth = MaxStackDepth

\* C19: a failed GetOffset (unknown category or name, or offsets not yet
\* resolved) returns -1, and no offset an iterator keeps for its reads is the
\* value of a failed lookup.
C19_FailedLookupNeverUsed ==
    /\ (probe.op = "GetOffset"
          /\ (\/ ~probe.resolver.m_bResolved
              \/ probe.CategoryName \in {"Pawn", "Mission"}
              \/ probe.Name = "NoSuchField"))
       => probe.result = -1
    /\ probe.op = "Initialize"
       => \A m \in DOMAIN probe.offsets : probe.offsets[m] >= 0

\* An iterator initialized before ResolveOffsets keeps -1 as the offset of
\* SuperStruct.
C19_SentinelKeptAsOffset ==
    /\ probe.op = "Initialize"
    /\ ~probe.resolver.m_bResolved
    /\ probe.iter.bInitialized
    /\ probe.offsets["m_SuperStructOffset"] = -1

\* C20: the table ResolveOffsets builds is a function of the generation
\* alone: every successful build for g leaves exactly the table a build for g
\* on a fresh FOffsetTable gives, whatever the resolver held before and
\* whatever else the version record says; a refused call builds nothing.
C20_BuildIsPure ==
    probe.op = "ResolveOffsets" =>
      /\ probe.result = "Success" =>
           probe.resolver.m_Offsets =
             ApplyVersionSpecificOffsets(FOffsetTable,
                 [Generation |-> probe.Version.Generation])
      /\ probe.result # "Success" => probe.resolver = probe.before

\* The table was built for UE4_25 and holds that arm's FField offsets.
C20_BuiltForUE425 ==
    /\ probe.op = "ResolveOffsets" /\ probe.result = "Success"
    /\ probe.Version.Generation = "UE4_25"
    /\ probe.resolver.m_Offsets.FField.Next = 16
    /\ probe.resolver.m_Offsets.UStruct.ChildProperties = 64
    /\ probe.resolver.m_Offsets.Controller.EditBuildingActor = 0

\* C21: the UProperty iterator and the FField iterator classify every class
\* name to the same EPropertyType: whenever both have classified the same
\* name, the two kinds are equal.
C21_SameClassification ==
    (/\ probe.op = "ClassifyProperty"
     /\ probe.UProperty.called
     /\ probe.FField.called
     /\ probe.UProperty.ClassName = probe.FField.ClassName)
        => probe.UProperty.Type = probe.FField.Type

C21_BothClassifyFieldPath ==
    /\ probe.op = "ClassifyProperty"
    /\ probe.UProperty.called
    /\ probe.FField.called
    /\ probe.UProperty.ClassName = "FieldPathProperty"
    /\ probe.FField.ClassName = "FieldPathProperty"
    /\ probe.FField.Type = 31

\* The changes of one kind in OutChanges, and whether a list of ids has no
\* id twice.
ChangesOfType(Type) ==
    {probe.OutChanges[k] : k \in {n \in 1..Len(probe.OutChanges) :
                                     probe.OutChanges[n].Type = Type}}

DistinctIDs(ids) ==
    \A i, j \in 1..Len(ids) : ids[i] = ids[j] => i = j

\* C22: a DetectChanges() call of an initialized detector reports, against
\* the snapshot the detector held before the call, exactly one Added per
\* current item whose id the snapshot lacks, one Removed per snapshot entry
\* whose id no current item has, one Modified per current item whose id the
\* snapshot holds with a different key (ids of the snapshot distinct), and
\* nothing else.
C22_ChangesAreTheDifference ==
    (probe.op = "DetectChanges" /\ probe.before.Serializer) =>
        LET prevIDs == probe.before.LastItemIDs
            prevKeys == probe.before.LastItemKeys
            curIDs == probe.detector.LastItemIDs
            curKeys == probe.detector.LastItemKeys
            InPrev(id) == \E j \in 1..Len(prevIDs) : prevIDs[j] = id
            InCur(id) == \E j \in 1..Len(curIDs) : curIDs[j] = id
        IN  /\ ChangesOfType("Added") =
                  {Change("Added", i - 1, curIDs[i]) :
                      i \in {n \in 1..Len(curIDs) : ~InPrev(curIDs[n])}}
            /\ ChangesOfType("Removed") =
                  {Change("Removed", i - 1, prevIDs[i]) :
                      i \in {n \in 1..Len(prevIDs) : ~InCur(prevIDs[n])}}
            /\ DistinctIDs(prevIDs) =>
                  ChangesOfType("Modified") =
                      {Change("Modified", i - 1, curIDs[i]) :
                          i \in {n \in 1..Len(curIDs) :
                                    \E j \in 1..Len(prevIDs) :
                                        /\ prevIDs[j] = curIDs[n]
                                        /\ prevKeys[j] # curKeys[n]}}
            /\ \A k \in 1..Len(probe.OutChanges) :
                  probe.OutChanges[k].Type \in {"Added", "Removed", "Modified"}
            /\ \A k, n \in 1..Len(probe.OutChanges) :
                  probe.OutChanges[k] = probe.OutChanges[n] => k = n
            /\ probe.result = Len(probe.OutChanges)

C22_OneAddedOneRemoved ==
    /\ probe.op = "DetectChanges"
    /\ probe.before.Serializer
    /\ probe.before.LastItemIDs = <<1, 2, 3>>
    /\ probe.detector.LastItemIDs = <<2, 3, 4>>
    /\ probe.OutChanges = <<Change("Removed", 0, 1), Change("Added", 2, 4)>>

\* C23: a first DetectVersion() that obtains build counter 9000000, from the
\* version string or else from the accessor, succeeds with generation
\* UE4_23_24 and bUseFNamePool set.
C23_Counter9000000 ==
    LET vs == lastDetect.env.vs
        ev == lastDetect.env.ev
        fromString == vs.found /\ vs.hasCL /\ vs.cl = 9000000
        fromAccessor == /\ lastDetect.strategy # "VersionInfo"
                        /\ ev.found /\ ev.parsed /\ ev.cl = 9000000
    IN lastDetect.called /\ ~lastDetect.preDetected
          /\ (fromString \/ fromAccessor) =>
            /\ lastDetect.result = "Success"
            /\ m_bDetected
            /\ m_VersionInfo.FortniteCL = 9000000
            /\ m_VersionInfo.Generation = "UE4_23_24"
            /\ m_VersionInfo.bUseFNamePool

C23_Resolved9000000FromString ==
    /\ lastDetect.called /\ ~lastDetect.preDetected
    /\ lastDetect.env.vs = VersionString(9000000)
    /\ lastDetect.strategy = "VersionInfo"
    /\ m_VersionInfo.EngineVersionMinor = 24
    /\ m_VersionInfo.Generation = "UE4_23_24"
    /\ m_VersionInfo.bUseFNamePool

\* C24: the rows of s_CLMappings are in ascending order with each row's range
\* non-empty and ending no later than the next begins, and the row a
\* detection took for its build counter is the only row whose range holds
\* that counter, so a scan in any order finds the same row.
C24_TableSortedDisjoint ==
    /\ \A i \in 1..s_CLMappingCount :
          /\ s_CLMappings[i][1] < s_CLMappings[i][2]
          /\ i < s_CLMappingCount => s_CLMappings[i][2] <= s_CLMappings[i + 1][1]
    /\ (lastDetect.called /\ lastDetect.strategy \in {"VersionInfo", "CL"}) =>
          \A i \in 1..s_CLMappingCount :
             RowHolds(s_CLMappings[i], m_VersionInfo.FortniteCL) =>
                /\ i = FirstMatch(m_VersionInfo.FortniteCL)
                /\ m_VersionInfo.FortniteVersion = s_CLMappings[i][5]

C24_CounterWhereTwoRowsMeet ==
    /\ lastDetect.called /\ lastDetect.strategy = "VersionInfo"
    /\ \E i \in 2..s_CLMappingCount :
          /\ s_CLMappings[i - 1][2] = s_CLMappings[i][1]
          /\ m_VersionInfo.FortniteCL = s_CLMappings[i][1]
          /\ m_VersionInfo.FortniteVersion = s_CLMappings[i][5]
          /\ m_VersionInfo.FortniteVersion # s_CLMappings[i - 1][5]

\* C25: two successive GetNameString() lookups of the same pool, one of a
\* wide entry and one of an ANSI entry, both readable and holding the same
\* text, return equal strings, in the chunk array and in the packed pool.
C25_WideDecodesAsAnsi ==
    [][(/\ probe.op = "GetNameString"
        /\ probe'.op = "GetNameString"
        /\ probe'.ComparisonIndex = probe.ComparisonIndex
        /\ probe.mem.wide # probe'.mem.wide
        /\ probe'.mem = [probe.mem EXCEPT !.wide = ~probe.mem.wide]
        /\ probe.mem.readable = AllReadable)
          => /\ probe'.ok = probe.ok
             /\ probe'.result = probe.result]_vars

C25_PawnReadWideAfterAnsi ==
    /\ probe.op = "GetNameString"
    /\ probe.calls = 2
    /\ probe.ok
    /\ probe.mem.wide
    /\ probe.mem.readable = AllReadable
    /\ probe.result = Str_NamePawn
    /\ \A j \in 1..Len(Str_NamePawn) :
          BufferAt(probe.AnsiBuffer, j - 1) = Str_NamePawn[j]

\* C26: whatever RegisterHandler, UnregisterHandler and SetHandlerEnabled
\* calls came before, every handler an OnProcessEvent() call invokes is in
\* m_Handlers at that call, enabled there, with a filter matching the call;
\* m_Handlers holds no handler twice, so one that was unregistered, or is
\* disabled, is not among those invoked.
C26_OnlyLiveHandlersInvoked ==
    /\ \A i, j \in 1..Len(m_Handlers) :
          m_Handlers[i].HandlerId = m_Handlers[j].HandlerId => i = j
    /\ (lastEvent.returned /\ lastEvent.initialized) =>
          \A k \in 1..Len(lastEvent.invoked) :
             /\ \E i \in 1..Len(m_Handlers) :
                   m_Handlers[i] = lastEvent.invoked[k]
             /\ lastEvent.invoked[k].bEnabled
             /\ Matches(lastEvent.invoked[k].Filter,
                        MakeContext(lastEvent.event))

C26_DisabledHandlerPassedOver ==
    /\ lastEvent.returned /\ lastEvent.initialized
    /\ Len(m_Handlers) = 2
    /\ Len(lastEvent.invoked) = 1
    /\ \E i \in 1..2 :
          /\ ~m_Handlers[i].bEnabled
          /\ Matches(m_Handlers[i].Filter, MakeContext(lastEvent.event))
          /\ m_Handlers[i].HandlerId # lastEvent.invoked[1].HandlerId

\* C27: the list GetFunctionInfo() or ParseParameters() resolves for a
\* callable holds every field of the callable's own chain that carries
\* CPF_Parm, once each, no field without the flag and no field of another
\* struct, in ascending order of Offset.
C27_ParamsAreOwnFlaggedFields ==
    (probe.op \in {"GetFunctionInfo", "ParseParameters"} /\ probe.ok) =>
        LET own == FieldsOf(probe.env, probe.Function)
            out == probe.OutParams
        IN  /\ {out[k] : k \in 1..Len(out)} =
                  {own[i] : i \in {n \in 1..Len(own) :
                                      "CPF_Parm" \in own[n].PropertyFlags}}
            /\ \A k, n \in 1..Len(out) : out[k] = out[n] => k = n
            /\ \A k, n \in 1..Len(out) : k < n => out[k].Offset <= out[n].Offset
            /\ probe.op = "ParseParameters" =>
                  /\ Len(probe.Params) = Len(out)
                  /\ \A k \in 1..Len(out) :
                        /\ probe.Params[k].Name = out[k].Name
                        /\ probe.Params[k].Offset = out[k].Offset

C27_TwoParamsOfThreeFields ==
    /\ probe.op = "ParseParameters" /\ probe.ok
    /\ probe.Function = 1
    /\ probe.env.super[1] = 3
    /\ Len(FieldsOf(probe.env, 1)) = 3
    /\ Len(probe.OutParams) = 2
    /\ probe.OutParams[1].Name = "Armor"
    /\ probe.OutParams[2].Name = "Health"
    /\ Len(probe.Params) = 2

\* The fields of Struct's own chain in chain order, then those of its super
\* type, and so on upwards for at most the given number of types.
RECURSIVE ChainThenSupers(_, _, _)
ChainThenSupers(env, Struct, types) ==
    IF Struct = 0 \/ types = 0 THEN << >>
    ELSE FieldsOf(env, Struct)
            \o ChainThenSupers(env, env.super[Struct], types - 1)

\* C28: at every moment of a ForEachProperty() walk the fields yielded so
\* far are the beginning of: the own chain of Struct in chain order, then
\* the chain of its super type, then of that type's super type, and so on;
\* with bIncludeSuper false they are fields of the own chain only; and a
\* walk that has returned has yielded all of them.
C28_OwnChainThenSupersInOrder ==
    (probe.op = "ForEachProperty" /\ probe.walk.start # 0) =>
        LET walk == probe.walk
            whole == ChainThenSupers(probe.env, walk.start,
                                     IF walk.bIncludeSuper
                                     THEN MaxStackDepth + 1 ELSE 1)
        IN  /\ Len(walk.yielded) <= Len(whole)
            /\ \A k \in 1..Len(walk.yielded) : walk.yielded[k] = whole[k]
            /\ (~walk.active /\ ~walk.overflow /\ probe.iter.bInitialized)
                  => walk.yielded = whole

C28_ThreeTypesWalked ==
    /\ probe.op = "ForEachProperty"
    /\ probe.walk.start = 1 /\ probe.walk.bIncludeSuper
    /\ probe.env.super[1] = 2 /\ probe.env.super[2] = 3
    /\ probe.env.super[3] = 0
    /\ ~probe.walk.active
    /\ Len(probe.walk.yielded) = 5
    /\ probe.walk.yielded[4].PropertyPtr = 21
    /\ probe.walk.yielded[5].PropertyPtr = 31

\* C29 as stated: FindPattern() over [Start, Start + Size) returns the first
\* position at which the pattern matches among all positions where the
\* whole pattern lies inside the range, the one ending at the end of the
\* range included, and reports not-found only when none of them matches.
C29_FirstMatchInRange ==
    (probe.op = "FindPattern" /\ ~probe.bNull) =>
        LET fits == {i \in 0..(Len(probe.Data) - Len(probe.Mask)) :
                        \A k \in 1..Len(probe.Mask) :
                           probe.Mask[k] = "x" =>
                              probe.Data[i + k] = ToUint8(probe.Pattern[k])}
        IN  IF fits = {} THEN ~probe.Result.bFound
            ELSE /\ probe.Result.bFound
                 /\ \E i \in fits :
                       /\ probe.Result.Address = probe.Start + i
                       /\ \A j \in fits : i <= j

\* The two bytes of the pattern are the last two bytes of the range and
\* occur nowhere before, and the scan reported not-found.
C29_MatchAtEndOfRangeMissed ==
    /\ probe.op = "FindPattern"
    /\ probe.Data = <<72, 72, 255>>
    /\ probe.Pattern = <<72, -1>> /\ probe.Mask = <<"x", "x">>
    /\ ~probe.Result.bFound

\* C30 as stated: in both serializers, IsItemDirty(i) called right after
\* MarkItemDirty(i) on an item of the array returns true, and IsItemDirty(i)
\* called right after MarkAllDirty() returns true for every item.
C30_MarkedItemIsDirty ==
    (/\ probe.op = "IsItemDirty"
     /\ HasItem(probe.serializer, probe.mem, probe.Index)
     /\ \/ probe.last = [op |-> "MarkItemDirty", Index |-> probe.Index]
        \/ probe.last.op = "MarkAllDirty")
        => probe.result = TRUE

\* The new-format serializer marked item 0 and then reported it clean.
C30_MarkedItemReportedClean ==
    /\ probe.op = "IsItemDirty"
    /\ probe.serializer.variant = "New"
    /\ probe.Index = 0
    /\ HasItem(probe.serializer, probe.mem, 0)
    /\ probe.last = [op |-> "MarkItemDirty", Index |-> 0]
    /\ probe.mem.Items[1].MostRecentArrayReplicationKey =
          probe.mem.ArrayReplicationKey
    /\ probe.result = FALSE

\* C31 as stated: for every (category, name) pair GetOffset recognises and
\* FOffsetTable has a member for, the lookup on a resolved resolver returns
\* the value of that member of the table ResolveOffsets built.
C31_LookupReturnsTableField ==
    (/\ probe.op = "GetOffset"
     /\ probe.resolver.m_bResolved
     /\ probe.CategoryName \in DOMAIN KnownOffsets(probe.resolver.m_Offsets)
     /\ probe.Name \in
          DOMAIN KnownOffsets(probe.resolver.m_Offsets)[probe.CategoryName]
     /\ probe.CategoryName \in DOMAIN probe.resolver.m_Offsets
     /\ probe.Name \in DOMAIN probe.resolver.m_Offsets[probe.CategoryName])
        => probe.result =
             probe.resolver.m_Offsets[probe.CategoryName][probe.Name]

\* The table was built with FField.Next = 16 and the lookup of (FField, Next)
\* returned 32.
C31_FFieldNextDiffers ==
    /\ probe.op = "GetOffset"
    /\ probe.resolver.m_bResolved
    /\ probe.CategoryName = "FField" /\ probe.Name = "Next"
    /\ probe.resolver.m_Offsets.FField.Next = 16
    /\ probe.result = 32

\* C32 as stated: a GetName() call made while the engine core is fully
\* initialized, for a name with comparison index above 0, never returns
\* "<uninitialized>": it returns the text of the index in the engine core's
\* initialized name pool.
C32_GetNameResolvesThroughCorePool ==
    (/\ probe.op = "GetName"
     /\ probe.m_Status.bFullyInitialized
     /\ probe.m_ComparisonIndex > 0)
        => /\ probe.result # "<uninitialized>"
           /\ probe.result = probe.Text

\* The engine core was fully initialized with an initialized name pool, and
\* GetName() of index 1 returned the placeholder from the file's own pool.
C32_PlaceholderAfterFullInit ==
    /\ probe.op = "GetName"
    /\ probe.m_Status.bFullyInitialized
    /\ probe.m_pNamePool.bInitialized
    /\ probe.m_ComparisonIndex = 1
    /\ probe.g_pNamePool.variant # "null"
    /\ ~probe.g_pNamePool.bInitialized
    /\ probe.result = "<uninitialized>"

\* An environment in which no step of FEngineCore::Initialize() has a cause
\* to fail: the module is found, a fresh resolver detects the version, both
\* tables are found and initialize.
CauseGone(env) ==
    /\ env.mem /\ env.gobjects /\ env.objInit /\ env.gnames /\ env.nameInit
    /\ DetectVersionOp(DefaultVersionInfo, FALSE, env.detect).result = "Success"

CauseGoneEnvs == { env \in CoreEnvs(CoreDetectEnvs) : CauseGone(env) }

\* C33 as stated: an Initialize() on a core that is not fully initialized,
\* after a Shutdown() or after an Initialize() that failed, in an environment
\* where no step has a cause to fail, returns Success and leaves the core
\* fully initialized.
C33_InitializeCanBeRepeated ==
    [][\A env \in CauseGoneEnvs :
         (/\ lastCore.called /\ ~m_Status.bFullyInitialized
          /\ EngineInitializeIn(env))
            => /\ lastCore'.result = "Success"
               /\ m_Status'.bFullyInitialized]_vars

\* After Initialize() succeeded and Shutdown() ran, a further Initialize()
\* was refused as AlreadyInitialized and the core is not initialized.
C33_RefusedAfterShutdown ==
    /\ lastCore.called /\ lastCore.result = "AlreadyInitialized"
    /\ ~m_Status.bFullyInitialized
    /\ s_bInitialized /\ m_bDetected /\ m_bResolved
    /\ m_pNamePool = NullTable /\ m_pObjectArray = NullTable
    /\ m_Status = DefaultStatus

\* C34 as stated: of two GetNameString() calls running on different threads
\* for different names, each returns the text of its own entry.
C34_EachCallReturnsOwnText ==
    probe.op = "GetNameString" =>
      \A t \in Threads :
        probe.threads[t].pc = "done"
          => probe.threads[t].result = probe.threads[t].entry.text

\* The call for "Pawn" returned "Acwn": the other thread's call for "Ac"
\* wrote the static array before this one read it.
C34_OtherCallsCharactersReturned ==
    /\ probe.op = "GetNameString"
    /\ \E t \in Threads :
         /\ probe.threads[t].pc = "done"
         /\ probe.threads[t].entry = [text |-> Str_NamePawn, wide |-> FALSE]
         /\ probe.threads[t].result = <<65, 99, 119, 110>>
         /\ \E u \in Threads \ {t} :
              probe.threads[u].entry = [text |-> Str_NameAc, wide |-> FALSE]

\* C35 as stated: once "EnemyKilled" was delivered N times to a mission
\* started with a kill objective of target N as its primary objective, that
\* objective is completed, and an Update() that runs then leaves the mission
\* Complete.
C35_KillsCompleteTheMission ==
    (/\ probe.op \in {"OnMissionEvent", "Update"}
     /\ Len(probe.mission.m_Objectives) = 1
     /\ probe.mission.m_Objectives[1].Type = "Kill"
     /\ probe.kills >= probe.mission.m_Objectives[1].TargetCount)
        => /\ probe.mission.m_Objectives[1].m_State = "Completed"
           /\ probe.op = "Update" => probe.mission.m_State = "Complete"

\* Five "EnemyKilled" events went to a mission with a kill objective of
\* target five; the objective is still inactive with no progress, and after
\* Update() the mission is still active.
C35_ObjectiveNeverActivated ==
    /\ probe.op = "Update"
    /\ probe.mission.Type = "EncampmentDestruction"
    /\ probe.kills = 5
    /\ probe.mission.m_Objectives[1].m_State = "Inactive"
    /\ probe.mission.m_Objectives[1].m_CurrentProgress = 0
    /\ probe.mission.m_State = "Active"

\* C36: the inventory's two maps agree: every stored item has a slot index
\* in [0, m_MaxSlots) and m_SlotToItem holds the item's id at that slot,
\* every entry of m_SlotToItem names a stored item, and no two items have
\* the same slot.
C36_SlotMapAgreesWithItems ==
    probe.op \in {"AddItem", "RemoveItem", "MoveItem", "StackItems",
                  "EquipItem", "UnequipItem"} =>
      /\ \A id \in DOMAIN probe.inv.m_Items :
           /\ probe.inv.m_Items[id].SlotIndex \in 0..(m_MaxSlots - 1)
           /\ probe.inv.m_Items[id].SlotIndex \in DOMAIN probe.inv.m_SlotToItem
           /\ probe.inv.m_SlotToItem[probe.inv.m_Items[id].SlotIndex] = id
      /\ \A s \in DOMAIN probe.inv.m_SlotToItem :
           probe.inv.m_SlotToItem[s] \in DOMAIN probe.inv.m_Items
      /\ \A a, b \in DOMAIN probe.inv.m_Items :
           a # b => probe.inv.m_Items[a].SlotIndex
                      # probe.inv.m_Items[b].SlotIndex

\* A move succeeded and left two items with their slots exchanged: item 1
\* in slot 1, item 2 in slot 0.
C36_TwoItemsSwapped ==
    /\ probe.op = "MoveItem" /\ probe.result = "Success"
    /\ DOMAIN probe.inv.m_Items = {1, 2}
    /\ probe.inv.m_Items[1].SlotIndex = 1
    /\ probe.inv.m_Items[2].SlotIndex = 0
    /\ probe.inv.m_SlotToItem = (0 :> 2) @@ (1 :> 1)

\* C37 as stated: an AddItem() call that returns InventoryFull leaves the
\* inventory as it was before the call: no count has grown, no item was
\* created and no slot was taken.
C37_InventoryFullChangesNothing ==
    (probe.op = "AddItem" /\ probe.result = "InventoryFull")
        => ~probe.changed

\* AddItem() returned InventoryFull with every slot taken, and the call
\* changed the inventory: the stack of wood was filled to its maximum of 3.
C37_StackGrewBeforeFull ==
    /\ probe.op = "AddItem" /\ probe.result = "InventoryFull"
    /\ probe.changed
    /\ FindFreeSlot(probe.inv) = -1
    /\ \E id \in DOMAIN probe.inv.m_Items :
         /\ probe.inv.m_Items[id].TemplateId = "Wood"
         /\ probe.inv.m_Items[id].Count = 3

\* C38 as stated: the items flagged as equipped are exactly the item
\* m_EquippedWeaponId names: that id, when it is not empty, is the id of a
\* stored item, and no other item has bIsEquipped set.
C38_EquippedFlagMatchesWeaponId ==
    probe.op \in {"AddItem", "RemoveItem", "MoveItem", "StackItems",
                  "EquipItem", "UnequipItem"} =>
      /\ probe.inv.m_EquippedWeaponId # 0
           => probe.inv.m_EquippedWeaponId \in DOMAIN probe.inv.m_Items
      /\ {id \in DOMAIN probe.inv.m_Items :
            probe.inv.m_Items[id].bIsEquipped}
           = IF probe.inv.m_EquippedWeaponId = 0 THEN {}
             ELSE {probe.inv.m_EquippedWeaponId}

\* After a second EquipItem() two swords are flagged as equipped, and
\* m_EquippedWeaponId names the second one.
C38_TwoWeaponsFlagged ==
    /\ probe.op = "EquipItem" /\ probe.result = "Success"
    /\ DOMAIN probe.inv.m_Items = {1, 2}
    /\ probe.inv.m_Items[1].bIsEquipped
    /\ probe.inv.m_Items[2].bIsEquipped
    /\ probe.inv.m_EquippedWeaponId = 2

BuildingOps == {"AddItem", "EnterBuildMode", "SetBuildMaterial",
                "UpdateBuildPreview", "ConfirmBuild", "DamageBuilding"}

\* C39 as stated: every live building is the one GetBuildingAtGrid() returns
\* for the building's own grid cell, and what GetBuildingAtGrid() returns
\* for a cell is a building of that cell.
C39_GridLookupFindsOwnBuilding ==
    (probe.op \in BuildingOps /\ probe.op # "AddItem") =>
      /\ \A id \in DOMAIN probe.bld.m_Buildings :
           GetBuildingAtGrid(probe.bld, probe.bld.m_Buildings[id].GridX,
                             probe.bld.m_Buildings[id].GridY,
                             probe.bld.m_Buildings[id].GridZ) = id
      /\ \A l \in BuildLocations :
           LET id == GetBuildingAtGrid(probe.bld, GridOf(l[1]), GridOf(l[2]),
                                       GridOf(l[3]))
           IN id # 0 =>
                <<probe.bld.m_Buildings[id].GridX,
                  probe.bld.m_Buildings[id].GridY,
                  probe.bld.m_Buildings[id].GridZ>>
                  = <<GridOf(l[1]), GridOf(l[2]), GridOf(l[3])>>

\* A second ConfirmBuild() on the same preview stored a second building in
\* the cell of the first: buildings 1 and 2 are both at (0, 0, -1) and the
\* lookup of that cell returns building 2.
C39_TwoBuildingsInOneCell ==
    /\ probe.op = "ConfirmBuild" /\ probe.result = "Success"
    /\ DOMAIN probe.bld.m_Buildings = {1, 2}
    /\ \A id \in {1, 2} :
         /\ probe.bld.m_Buildings[id].GridX = 0
         /\ probe.bld.m_Buildings[id].GridY = 0
         /\ probe.bld.m_Buildings[id].GridZ = -1
    /\ GetBuildingAtGrid(probe.bld, 0, 0, -1) = 2


\* C40 as stated: a ConfirmBuild() that stores a building has taken the
\* full cost from the inventory's stock of the preview's material, and a
\* ConfirmBuild() made with less stock than the cost stores no building and
\* takes nothing from the inventory.
C40_BuildingPaidFromItsMaterial ==
    probe.op = "ConfirmBuild" =>
      LET Preview == probe.bld.m_BuildPreview
          Price == CostIn(Preview.Cost, Preview.Material)
          Left == GetItemCount(probe.inv, TemplateOf(Preview.Material))
      IN /\ probe.built # {} => probe.stock - Left = Price
         /\ probe.stock < Price => probe.built = {} /\ ~probe.changed

\* A wooden wall was stored while the inventory held no wood: the ten
\* stone it held were counted as wood by the preview and taken by
\* ConfirmBuild().
C40_WoodenWallPaidInStone ==
    /\ probe.op = "ConfirmBuild" /\ probe.result = "Success"
    /\ probe.built # {}
    /\ probe.bld.m_BuildPreview.Material = "Wood"
    /\ probe.bld.m_BuildPreview.Cost.WoodCost = 10
    /\ probe.stock = 0
    /\ probe.changed
    /\ GetItemCount(probe.inv, "Resource:Stone") = 0

=============================================================================
